---------------------------- MODULE Spec2Model ----------------------------
(***************************************************************************)
(* Distributed quantum computing simulation: the node / network model,     *)
(* the protocol engine and the priority scheduler.                         *)
(*                                                                         *)
(* Conventions                                                             *)
(*  - Simulated durations are exact multiples of 0.005 s and are kept as   *)
(*    integers in that unit (0.01 s = 2, 0.1 s = 20, latency*1.5 = 3L/2).  *)
(*  - Python's None is NoneVal; the tuple (None, None) is NoRef.           *)
(*  - A call that raises records the exception class in result.status.     *)
(*  - execute_schedule is followed statement by statement through pc; the  *)
(*    other operations are single steps taken while no drain is running.   *)
(***************************************************************************)
EXTENDS Integers, Sequences, FiniteSets, TLC

(***************************************************************************)
(* Configuration of the network under analysis.                            *)
(***************************************************************************)
NumNodes == 2
QubitsPerNode == 3

(* Durations, in units of 0.005 s. *)
GateDuration == 2
BaseExecutionTime == 20
MeasureTime == 10
CorrectionTime == 4
LocalOpsTime == 16

(* Fidelities, in units of 0.001. *)
BaseFidelity == 960
MinFidelity == 940
MaxFidelity == 980
GateBaseFidelity == 940
GateMinFidelity == 800
GateMaxFidelity == 1000
LocalGateFidelity == 980

(***************************************************************************)
(* Bounds of the exploration.                                              *)
(***************************************************************************)
MaxItems == 3
MaxDrains == 2
MaxWall == 1
MaxCalls == 2

Nodes == 0 .. (NumNodes - 1)
Slots == 0 .. (QubitsPerNode - 1)

(* Argument domains: every in-range value and one value out of range on    *)
(* each side.                                                              *)
NodeArgs == -1 .. NumNodes
SlotArgs == {-1, 0, QubitsPerNode - 1, QubitsPerNode}
Latencies == {0, 20}
Priorities == {1, 2}
RequiredQubits == {2, QubitsPerNode + 1}
Durations == {GateDuration, 2 * GateDuration}
QubitLists == {<<q>> : q \in SlotArgs} \cup {<<0, q>> : q \in SlotArgs}
(* Samples of the Gaussian noise terms, in units of 0.001. *)
Noises == {-30, 0, 30}
GateNoises == {-200, 0, 200}
GateKinds == {"CNOT", "cx", "H"}

NoneVal == -1
NoRef == <<>>

VARIABLES
    (* QuantumNetworkNode, one entry per node id *)
    available_qubits, entangled_with, operation_history, total_operations,
    (* DistributedQuantumNetwork *)
    communication_latency, entanglement_pairs, global_time,
    (* QuantumProtocols.protocol_metrics *)
    teleportation_times, fidelities, entanglement_consumption, protocol_errors,
    (* QuantumScheduler *)
    schedule_queue, scheduling_history,
    (* the frame of a running execute_schedule *)
    pc, temp_queue, execution_results, start_time, current, target_node,
    used_qubits, gate_index, execution_time,
    (* environment: the clock read by time.time() *)
    wall,
    (* observation: outcome of the last finished call, the queue and the   *)
    (* available-slot sets a drain started from, the items it has handled, *)
    (* the entries pushed while it ran, and counters of calls, drains,     *)
    (* submitted items and successful create_entanglement runs             *)
    result, snapshot, slots_before, drain_log, arrivals, calls, drains, submitted,
    entangled,
    (* replay: the calls and outcomes of the current run, and the record   *)
    (* of a finished first run that a second run repeats                   *)
    run_log, first_run,
    (* the frame of an execute_schedule call made by a second thread *)
    other

node_vars == <<available_qubits, entangled_with, operation_history, total_operations>>
net_vars == <<communication_latency, entanglement_pairs, global_time>>
metric_vars == <<teleportation_times, fidelities, entanglement_consumption, protocol_errors>>
sched_vars == <<schedule_queue, scheduling_history>>
frame_vars == <<pc, temp_queue, execution_results, start_time, current, target_node,
                used_qubits, gate_index, execution_time>>
obs_vars == <<snapshot, slots_before, drain_log, arrivals>>
replay_vars == <<run_log, first_run>>
aside_vars == <<replay_vars, other>>
vars == <<node_vars, net_vars, metric_vars, sched_vars, frame_vars, wall,
          result, obs_vars, calls, drains, submitted, entangled, aside_vars>>

-----------------------------------------------------------------------------
(***************************************************************************)
(* Python helpers.                                                         *)
(***************************************************************************)
Max(a, b) == IF a >= b THEN a ELSE b
Min(a, b) == IF a <= b THEN a ELSE b

(* A quotient num/den kept exact. *)
Ratio(num, den) == [num |-> num, den |-> den]

(* The set of the entries of a list. *)
Elements(list) == {list[i] : i \in 1 .. Len(list)}

(* t1 < t2 on the tuples (priority, timestamp, circuit_id, subcircuit):    *)
(* the first unequal component decides; two unequal dicts are unorderable. *)
TupleLt(a, b) ==
    IF a.priority # b.priority THEN
        IF a.priority < b.priority THEN "true" ELSE "false"
    ELSE IF a.timestamp # b.timestamp THEN
        IF a.timestamp < b.timestamp THEN "true" ELSE "false"
    ELSE IF a.circuit_id # b.circuit_id THEN
        IF a.circuit_id < b.circuit_id THEN "true" ELSE "false"
    ELSE IF a.subcircuit # b.subcircuit THEN "TypeError"
    ELSE "false"

(* The list with the entries at 0-based positions i and j exchanged. *)
Swap(heap, i, j) ==
    [heap EXCEPT ![i + 1] = heap[j + 1], ![j + 1] = heap[i + 1]]

(* heapq's sift of the entry at pos towards the root (0-based positions).  *)
RECURSIVE Siftdown(_, _, _)
Siftdown(heap, startpos, pos) ==
    IF pos <= startpos THEN [heap |-> heap, err |-> FALSE]
    ELSE LET parentpos == (pos - 1) \div 2
             lt == TupleLt(heap[pos + 1], heap[parentpos + 1])
         IN  IF lt = "TypeError" THEN [heap |-> heap, err |-> TRUE]
             ELSE IF lt = "false" THEN [heap |-> heap, err |-> FALSE]
             ELSE Siftdown(Swap(heap, pos, parentpos), startpos, parentpos)

(* heapq's walk of the entry at pos down to a leaf along smaller children. *)
RECURSIVE SiftupWalk(_, _)
SiftupWalk(heap, pos) ==
    LET endpos == Len(heap)
        limit == endpos \div 2
        childpos == 2 * pos + 1
        hasRight == childpos + 1 < endpos
        lt == IF hasRight THEN TupleLt(heap[childpos + 1], heap[childpos + 2])
              ELSE "true"
        chosen == IF lt = "false" THEN childpos + 1 ELSE childpos
    IN  IF pos >= limit THEN [heap |-> heap, pos |-> pos, err |-> FALSE]
        ELSE IF lt = "TypeError" THEN [heap |-> heap, pos |-> pos, err |-> TRUE]
        ELSE SiftupWalk(Swap(heap, chosen, pos), chosen)

Siftup(heap, pos) ==
    LET w == SiftupWalk(heap, pos)
    IN  IF w.err THEN [heap |-> w.heap, err |-> TRUE]
        ELSE Siftdown(w.heap, pos, w.pos)

(* heapq.heappush: the item is appended, then sifted. *)
HeapPush(heap, item) == Siftdown(Append(heap, item), 0, Len(heap))

(* A pop that moves the last entry to the root and sifts nothing: what     *)
(* heappop would be without restoring the heap order.                      *)
HeapPopUnsifted(heap) ==
    LET n == Len(heap)
        rest == SubSeq(heap, 1, n - 1)
    IN  IF n = 1 THEN [heap |-> <<>>, item |-> heap[n], err |-> FALSE]
        ELSE [heap |-> [rest EXCEPT ![1] = heap[n]], item |-> rest[1], err |-> FALSE]

(* heapq.heappop of a non-empty heap. *)
HeapPop(heap) ==
    LET n == Len(heap)
        lastelt == heap[n]
        rest == SubSeq(heap, 1, n - 1)
        s == Siftup([rest EXCEPT ![1] = lastelt], 0)
    IN  IF n = 1 THEN [heap |-> <<>>, item |-> lastelt, err |-> FALSE]
        ELSE [heap |-> s.heap, item |-> rest[1], err |-> s.err]

-----------------------------------------------------------------------------
(***************************************************************************)
(* Construction: DistributedQuantumNetwork(NumNodes, QubitsPerNode, L),    *)
(* QuantumProtocols(network), QuantumScheduler(network).                   *)
(***************************************************************************)
(* The frame of a call that is not running. *)
NoFrame ==
    [pc |-> "idle", temp_queue |-> <<>>, execution_results |-> <<>>,
     start_time |-> 0, current |-> NoneVal, target_node |-> NoneVal,
     used_qubits |-> <<>>, gate_index |-> 0, execution_time |-> 0]

IdleFrame ==
    /\ pc = "idle"
    /\ temp_queue = <<>>
    /\ execution_results = <<>>
    /\ start_time = 0
    /\ current = NoneVal
    /\ target_node = NoneVal
    /\ used_qubits = <<>>
    /\ gate_index = 0
    /\ execution_time = 0
    /\ other = NoFrame

InitWith(latency) ==
    /\ available_qubits = [n \in Nodes |-> Slots]
    /\ entangled_with = [n \in Nodes |-> [q \in Slots |-> NoRef]]
    /\ operation_history = [n \in Nodes |-> <<>>]
    /\ total_operations = [n \in Nodes |-> 0]
    /\ communication_latency = latency
    /\ entanglement_pairs = <<>>
    /\ global_time = 0
    /\ teleportation_times = <<>>
    /\ fidelities = <<>>
    /\ entanglement_consumption = <<>>
    /\ protocol_errors = <<>>
    /\ schedule_queue = <<>>
    /\ scheduling_history = <<>>
    /\ IdleFrame
    /\ wall = 0
    /\ result = [op |-> "init", status |-> "ok", value |-> NoneVal]
    /\ snapshot = <<>>
    /\ slots_before = <<>>
    /\ drain_log = <<>>
    /\ arrivals = <<>>
    /\ calls = 0
    /\ run_log = <<>>
    /\ first_run = [done |-> FALSE, log |-> <<>>, tape |-> <<>>, final |-> <<>>]
    /\ drains = 0
    /\ submitted = 0
    /\ entangled = 0

(* The outcome of a finished call; snapshot, slots_before and drain_log    *)
(* describe the most recent execute_schedule only while it is the most     *)
(* recent call.                                                            *)
NoDrainObserved ==
    snapshot' = <<>> /\ slots_before' = <<>> /\ drain_log' = <<>> /\ arrivals' = <<>>

Returned(op, value) == [op |-> op, status |-> "ok", value |-> value]
Raised(op, exception) == [op |-> op, status |-> exception, value |-> NoneVal]

-----------------------------------------------------------------------------
(***************************************************************************)
(* QuantumNetworkNode                                                      *)
(***************************************************************************)
(* A range test that looks at the upper end only. *)
ValidQubitsBelow(qubits) ==
    \A i \in 1 .. Len(qubits) : qubits[i] < QubitsPerNode

(* The range test of execute_gate on a list of slot indices. *)
ValidQubits(qubits) ==
    \A i \in 1 .. Len(qubits) : 0 <= qubits[i] /\ qubits[i] < QubitsPerNode

OperationRecord(node, gate_type, qubits, duration) ==
    [gate |-> gate_type, qubits |-> qubits, duration |-> duration, node_id |-> node]

(* A gate that is logged but not counted. *)
GateAppliedUncounted(node, gate_type, qubits, duration) ==
    /\ operation_history' =
           [operation_history EXCEPT
               ![node] = Append(@, OperationRecord(node, gate_type, qubits, duration))]
    /\ total_operations' = total_operations

(* A gate that is counted twice. *)
GateAppliedCountedTwice(node, gate_type, qubits, duration) ==
    /\ operation_history' =
           [operation_history EXCEPT
               ![node] = Append(@, OperationRecord(node, gate_type, qubits, duration))]
    /\ total_operations' = [total_operations EXCEPT ![node] = @ + 2]

(* The state change of a successful execute_gate on one node. *)
GateApplied(node, gate_type, qubits, duration) ==
    /\ operation_history' =
           [operation_history EXCEPT
               ![node] = Append(@, OperationRecord(node, gate_type, qubits, duration))]
    /\ total_operations' = [total_operations EXCEPT ![node] = @ + 1]

(* get_utilization, as the exact quotient it returns. *)
GetUtilization(node) ==
    IF operation_history[node] = <<>> THEN Ratio(0, 1)
    ELSE Ratio(Len(operation_history[node]), Max(total_operations[node], 1))

(* A reset that also clears the back-reference of the slot's peer. *)
ResetQubitBothSides(node, qubit_idx) ==
    /\ pc = "idle"
    /\ IF 0 <= qubit_idx /\ qubit_idx < QubitsPerNode
       THEN LET peer == entangled_with[node][qubit_idx]
                cleared == [entangled_with EXCEPT ![node][qubit_idx] = NoRef]
            IN  /\ entangled_with' =
                       IF peer = NoRef THEN cleared
                       ELSE [cleared EXCEPT ![peer[1]][peer[2]] = NoRef]
                /\ available_qubits' =
                       [available_qubits EXCEPT ![node] = @ \cup {qubit_idx}]
       ELSE UNCHANGED <<entangled_with, available_qubits>>
    /\ result' = Returned("reset_qubit", NoneVal)
    /\ NoDrainObserved
    /\ UNCHANGED <<operation_history, total_operations, net_vars, metric_vars,
                   sched_vars, frame_vars, wall, drains, submitted, entangled>>

(* reset_qubit called on a node object; out-of-range indices are ignored. *)
ResetQubit(node, qubit_idx) ==
    /\ pc = "idle"
    /\ IF 0 <= qubit_idx /\ qubit_idx < QubitsPerNode
       THEN /\ entangled_with' = [entangled_with EXCEPT ![node][qubit_idx] = NoRef]
            /\ available_qubits' = [available_qubits EXCEPT ![node] = @ \cup {qubit_idx}]
       ELSE UNCHANGED <<entangled_with, available_qubits>>
    /\ result' = Returned("reset_qubit", NoneVal)
    /\ NoDrainObserved
    /\ UNCHANGED <<operation_history, total_operations, net_vars, metric_vars,
                   sched_vars, frame_vars, wall, drains, submitted, entangled>>

(* execute_gate called on a node object. *)
ExecuteGate(node, gate_type, qubits, duration) ==
    /\ pc = "idle"
    /\ IF ValidQubits(qubits)
       THEN /\ GateApplied(node, gate_type, qubits, duration)
            /\ result' = Returned("execute_gate", duration)
       ELSE /\ UNCHANGED <<operation_history, total_operations>>
            /\ result' = Raised("execute_gate", "ValueError")
    /\ NoDrainObserved
    /\ UNCHANGED <<available_qubits, entangled_with, net_vars, metric_vars,
                   sched_vars, frame_vars, wall, drains, submitted, entangled>>

-----------------------------------------------------------------------------
(***************************************************************************)
(* DistributedQuantumNetwork                                               *)
(***************************************************************************)
(* The argument checks without the same-node test. *)
EntanglementErrorAcrossOnly(node1, qubit1, node2, qubit2) ==
    IF ~(0 <= node1 /\ node1 < NumNodes /\ 0 <= node2 /\ node2 < NumNodes)
        THEN "invalid_node"
    ELSE IF ~(0 <= qubit1 /\ qubit1 < QubitsPerNode /\ 0 <= qubit2 /\ qubit2 < QubitsPerNode)
        THEN "invalid_qubit"
    ELSE "none"

(* The argument checks without the slot range test. *)
EntanglementErrorNodesOnly(node1, qubit1, node2, qubit2) ==
    IF node1 = node2 THEN "same_node"
    ELSE IF ~(0 <= node1 /\ node1 < NumNodes /\ 0 <= node2 /\ node2 < NumNodes)
        THEN "invalid_node"
    ELSE "none"

(* The three argument checks of create_entanglement, in order; each raises *)
(* ValueError.                                                             *)
EntanglementError(node1, qubit1, node2, qubit2) ==
    IF node1 = node2 THEN "same_node"
    ELSE IF ~(0 <= node1 /\ node1 < NumNodes /\ 0 <= node2 /\ node2 < NumNodes)
        THEN "invalid_node"
    ELSE IF ~(0 <= qubit1 /\ qubit1 < QubitsPerNode /\ 0 <= qubit2 /\ qubit2 < QubitsPerNode)
        THEN "invalid_qubit"
    ELSE "none"

(* The entanglement time with the wrong sign. *)
EntanglementTimeNegated == 0 - ((communication_latency * 3) \div 2)

(* The latency taken once, without the factor 1.5. *)
EntanglementTimeUnscaled == communication_latency

(* communication_latency * 1.5 *)
EntanglementTime == (communication_latency * 3) \div 2

EntanglementPair(node1, qubit1, node2, qubit2) ==
    <<<<node1, qubit1>>, <<node2, qubit2>>>>

(* A registry that keeps one entry per unordered pair of slots. *)
PairsAfterDeduplicated(node1, qubit1, node2, qubit2) ==
    IF \E i \in 1 .. Len(entanglement_pairs) :
           {entanglement_pairs[i][1], entanglement_pairs[i][2]}
               = {<<node1, qubit1>>, <<node2, qubit2>>}
    THEN entanglement_pairs
    ELSE Append(entanglement_pairs, EntanglementPair(node1, qubit1, node2, qubit2))

(* The registry and the back-references after a successful call. *)
PairsAfter(node1, qubit1, node2, qubit2) ==
    Append(entanglement_pairs, EntanglementPair(node1, qubit1, node2, qubit2))

BackRefsAfter(node1, qubit1, node2, qubit2) ==
    [entangled_with EXCEPT ![node1][qubit1] = <<node2, qubit2>>,
                           ![node2][qubit2] = <<node1, qubit1>>]

CreateEntanglement(node1, qubit1, node2, qubit2) ==
    /\ pc = "idle"
    /\ IF EntanglementError(node1, qubit1, node2, qubit2) = "none"
       THEN /\ global_time' = global_time + EntanglementTime
            /\ entanglement_pairs' = PairsAfter(node1, qubit1, node2, qubit2)
            /\ entangled_with' = BackRefsAfter(node1, qubit1, node2, qubit2)
            /\ entangled' = entangled + 1
            /\ result' = Returned("create_entanglement", EntanglementTime)
       ELSE /\ UNCHANGED <<global_time, entanglement_pairs, entangled_with, entangled>>
            /\ result' = Raised("create_entanglement", "ValueError")
    /\ NoDrainObserved
    /\ UNCHANGED <<available_qubits, operation_history, total_operations,
                   communication_latency, metric_vars, sched_vars, frame_vars,
                   wall, drains, submitted>>

(* get_network_stats *)
(* Statistics that count the operations of the first node only. *)
NetworkStatsFirstNode ==
    [total_nodes |-> NumNodes,
     total_qubits |-> NumNodes * QubitsPerNode,
     active_entanglements |-> Len(entanglement_pairs),
     total_operations |-> total_operations[0],
     node_utilizations |-> [n \in Nodes |-> GetUtilization(n)],
     global_time |-> global_time]

NetworkStats ==
    [total_nodes |-> NumNodes,
     total_qubits |-> NumNodes * QubitsPerNode,
     active_entanglements |-> Len(entanglement_pairs),
     total_operations |-> total_operations[0] + total_operations[1],
     node_utilizations |-> [n \in Nodes |-> GetUtilization(n)],
     global_time |-> global_time]

-----------------------------------------------------------------------------
(***************************************************************************)
(* QuantumProtocols                                                        *)
(***************************************************************************)
Clamp(low, high, x) == Max(low, Min(high, x))

(* str.upper() on the gate kinds in use. *)
Upper(gate_type) ==
    CASE gate_type = "cx" -> "CX"
      [] gate_type = "cnot" -> "CNOT"
      [] OTHER -> gate_type

(* The correction gates of a measurement outcome (bit0, bit1): X when the  *)
(* second bit is 1, then Z when the first bit is 1.                        *)
Corrections(bits) ==
    (IF bits[2] = 1 THEN <<"X">> ELSE <<>>) \o (IF bits[1] = 1 THEN <<"Z">> ELSE <<>>)

CorrectionRecords(node, qubit, gates) ==
    [i \in 1 .. Len(gates) |-> OperationRecord(node, gates[i], <<qubit>>, GateDuration)]

ProtocolError(protocol, cause) == [protocol |-> protocol, cause |-> cause]

(* A handler that re-raises without recording the error. *)
ErrorsAfterUnrecorded(protocol, cause) == protocol_errors

(* self.protocol_metrics['protocol_errors'].append(error_msg) *)
ErrorsAfter(protocol, cause) == Append(protocol_errors, ProtocolError(protocol, cause))

(* The outcome of a protocol call, with the stages it completed: the name  *)
(* of each stage and the logical clock after it, in execution order.       *)
Staged(outcome, stages) ==
    [op |-> outcome.op, status |-> outcome.status, value |-> outcome.value,
     stages |-> stages]

(* The clock after each of the stages run from the clock value start;      *)
(* advance[i] is what stage names[i] adds.                                 *)
RECURSIVE ClockAfter(_, _, _)
ClockAfter(start, advance, i) ==
    IF i = 0 THEN start ELSE ClockAfter(start, advance, i - 1) + advance[i]

StageTrace(start, names, advance) ==
    [i \in 1 .. Len(names) |-> [stage |-> names[i], clock |-> ClockAfter(start, advance, i)]]

(* An elapsed time that forgets the clock value at the start of the call. *)
ElapsedFromZero(start_clock, end_clock) == end_clock

(* total_time = self.network.global_time - start_time *)
Elapsed(start_clock, end_clock) == end_clock - start_clock

(* The stages of teleport_qubit in statement order, and what each adds to  *)
(* the clock.                                                              *)
TeleportStages == <<"entangle", "measure", "communicate", "correct">>

(* The clock advance of the four teleportation stages. *)
TeleportAdvance ==
    <<EntanglementTime, MeasureTime, communication_latency, CorrectionTime>>

TeleportClock ==
    EntanglementTime + MeasureTime + communication_latency + CorrectionTime

(* The sampled fidelity without the clamp. *)
TeleportFidelityUnclamped(noise) == BaseFidelity + noise

(* max(0.94, min(0.98, base_fidelity + noise)) *)
(* A fidelity that also depends on the wall clock. *)
TeleportFidelityTimed(noise) ==
    Clamp(MinFidelity, MaxFidelity, BaseFidelity + noise + wall)

TeleportFidelity(noise) == Clamp(MinFidelity, MaxFidelity, BaseFidelity + noise)

(* t_node, t_qubit: the target_node and target_qubit arguments. *)
TeleportQubit(source_node, source_qubit, t_node, t_qubit, bits, noise) ==
    /\ pc = "idle"
    /\ LET cause == EntanglementError(source_node, source_qubit, t_node, t_qubit)
           gates == Corrections(bits)
           trace == StageTrace(global_time, TeleportStages, TeleportAdvance)
           total_time == Elapsed(global_time, global_time + TeleportClock)
           fidelity == TeleportFidelity(noise)
       IN  IF cause # "none"
           THEN (* step 1 raises: nothing but the error entry changes *)
                /\ protocol_errors' =
                       ErrorsAfter("Teleportation failed", cause)
                /\ result' = Staged(Raised("teleport_qubit", "ValueError"), <<>>)
                /\ UNCHANGED <<global_time, entanglement_pairs, entangled_with,
                               entangled, operation_history, total_operations,
                               teleportation_times, fidelities,
                               entanglement_consumption>>
           ELSE IF gates # <<>> /\ ~ValidQubits(<<t_qubit>>)
           THEN (* step 4 raises after steps 1-3 have taken effect *)
                /\ global_time' = global_time + EntanglementTime + MeasureTime
                                  + communication_latency
                /\ entanglement_pairs' =
                       PairsAfter(source_node, source_qubit, t_node, t_qubit)
                /\ entangled_with' =
                       BackRefsAfter(source_node, source_qubit, t_node, t_qubit)
                /\ entangled' = entangled + 1
                /\ protocol_errors' =
                       ErrorsAfter("Teleportation failed", "invalid_qubits")
                /\ result' = Staged(Raised("teleport_qubit", "ValueError"),
                                     SubSeq(trace, 1, 3))
                /\ UNCHANGED <<operation_history, total_operations,
                               teleportation_times, fidelities,
                               entanglement_consumption>>
           ELSE /\ global_time' = global_time + TeleportClock
                /\ entanglement_pairs' =
                       PairsAfter(source_node, source_qubit, t_node, t_qubit)
                /\ entangled_with' =
                       BackRefsAfter(source_node, source_qubit, t_node, t_qubit)
                /\ entangled' = entangled + 1
                /\ operation_history' =
                       [operation_history EXCEPT
                           ![t_node] =
                               @ \o CorrectionRecords(t_node, t_qubit, gates)]
                /\ total_operations' =
                       [total_operations EXCEPT ![t_node] = @ + Len(gates)]
                /\ teleportation_times' = Append(teleportation_times, total_time)
                /\ fidelities' = Append(fidelities, fidelity)
                /\ entanglement_consumption' =
                       Append(entanglement_consumption, Len(entanglement_pairs) + 1)
                /\ result' = Staged(Returned("teleport_qubit", <<total_time, fidelity>>),
                                     trace)
                /\ UNCHANGED protocol_errors
    /\ NoDrainObserved
    /\ UNCHANGED <<available_qubits, communication_latency, sched_vars, frame_vars,
                   wall, drains, submitted>>

(* The clock advance of a controlled remote gate. *)
RemoteGateClock == EntanglementTime + LocalOpsTime + communication_latency

(* The sampled gate fidelity without the clamp. *)
RemoteGateFidelityUnclamped(noise) == GateBaseFidelity + noise

(* max(0.8, min(1.0, 0.94 + noise)) *)
RemoteGateFidelity(noise) ==
    Clamp(GateMinFidelity, GateMaxFidelity, GateBaseFidelity + noise)

(* nodes[i]: a negative index counts from the end of the list. *)
ListIndex(i) ==
    IF 0 <= i /\ i < NumNodes THEN i
    ELSE IF -NumNodes <= i /\ i < 0 THEN i + NumNodes
    ELSE NoneVal

RemoteGateOperation(control_node, control_qubit, t_node, t_qubit, gate_type, noise) ==
    /\ pc = "idle"
    /\ LET cause == EntanglementError(control_node, control_qubit, t_node, t_qubit)
           node == ListIndex(t_node)
       IN  IF Upper(gate_type) \in {"CNOT", "CX"}
           THEN /\ IF cause # "none"
                   THEN /\ protocol_errors' =
                               ErrorsAfter("Remote gate operation failed", cause)
                        /\ result' = Staged(Raised("remote_gate_operation", "ValueError"), <<>>)
                        /\ UNCHANGED <<global_time, entanglement_pairs, entangled_with,
                                       entangled, teleportation_times, fidelities>>
                   ELSE /\ global_time' = global_time + RemoteGateClock
                        /\ entanglement_pairs' =
                               PairsAfter(control_node, control_qubit, t_node, t_qubit)
                        /\ entangled_with' =
                               BackRefsAfter(control_node, control_qubit, t_node, t_qubit)
                        /\ entangled' = entangled + 1
                        /\ teleportation_times' =
                               Append(teleportation_times,
                                      (global_time + RemoteGateClock) - global_time)
                        /\ fidelities' = Append(fidelities, RemoteGateFidelity(noise))
                        /\ result' = Returned("remote_gate_operation",
                                              <<(global_time + RemoteGateClock) - global_time,
                                                RemoteGateFidelity(noise)>>)
                        /\ UNCHANGED protocol_errors
                /\ UNCHANGED <<operation_history, total_operations>>
           ELSE /\ IF node = NoneVal
                   THEN /\ protocol_errors' =
                               ErrorsAfter("Remote gate operation failed", "list_index")
                        /\ result' = Staged(Raised("remote_gate_operation", "IndexError"), <<>>)
                        /\ UNCHANGED <<operation_history, total_operations,
                                       teleportation_times, fidelities>>
                   ELSE IF ~ValidQubits(<<t_qubit>>)
                   THEN /\ protocol_errors' =
                               ErrorsAfter("Remote gate operation failed", "invalid_qubits")
                        /\ result' = Staged(Raised("remote_gate_operation", "ValueError"), <<>>)
                        /\ UNCHANGED <<operation_history, total_operations,
                                       teleportation_times, fidelities>>
                   ELSE /\ GateApplied(node, gate_type, <<t_qubit>>, GateDuration)
                        /\ teleportation_times' = Append(teleportation_times, GateDuration)
                        /\ fidelities' = Append(fidelities, LocalGateFidelity)
                        /\ result' = Returned("remote_gate_operation",
                                              <<GateDuration, LocalGateFidelity>>)
                        /\ UNCHANGED protocol_errors
                /\ UNCHANGED <<global_time, entanglement_pairs, entangled_with, entangled>>
    /\ NoDrainObserved
    /\ UNCHANGED <<available_qubits, communication_latency, entanglement_consumption,
                   sched_vars, frame_vars, wall, drains, submitted>>

(* sum, min and max of a non-empty list of numbers. *)
RECURSIVE SumOf(_)
SumOf(list) == IF list = <<>> THEN 0 ELSE list[1] + SumOf(Tail(list))

MinOf(list) == CHOOSE x \in Elements(list) : \A y \in Elements(list) : x <= y
MaxOf(list) == CHOOSE x \in Elements(list) : \A y \in Elements(list) : x >= y

(* np.mean as an exact quotient; np.std through its square, the variance   *)
(* (n * sum of squares - square of the sum) / n^2.                         *)
Mean(list) == Ratio(SumOf(list), Len(list))
Variance(list) ==
    Ratio(Len(list) * SumOf([i \in 1 .. Len(list) |-> list[i] * list[i]])
              - SumOf(list) * SumOf(list),
          Len(list) * Len(list))

(* A summary that counts the recorded registry snapshots as operations. *)
ProtocolMetricsBySnapshots ==
    IF teleportation_times = <<>> THEN <<>>
    ELSE [avg_teleportation_time |-> Mean(teleportation_times),
          std_teleportation_time |-> [squared |-> Variance(teleportation_times)],
          avg_fidelity |-> Mean(fidelities),
          min_fidelity |-> MinOf(fidelities),
          max_fidelity |-> MaxOf(fidelities),
          total_operations |-> Len(entanglement_consumption),
          total_entanglements |->
              IF entanglement_consumption # <<>> THEN MaxOf(entanglement_consumption)
              ELSE 0,
          error_count |-> Len(protocol_errors)]

(* A summary that reports the current length of the registry. *)
ProtocolMetricsLiveRegistry ==
    IF teleportation_times = <<>> THEN <<>>
    ELSE [avg_teleportation_time |-> Mean(teleportation_times),
          std_teleportation_time |-> [squared |-> Variance(teleportation_times)],
          avg_fidelity |-> Mean(fidelities),
          min_fidelity |-> MinOf(fidelities),
          max_fidelity |-> MaxOf(fidelities),
          total_operations |-> Len(teleportation_times),
          total_entanglements |-> Len(entanglement_pairs),
          error_count |-> Len(protocol_errors)]

(* The value of get_protocol_metrics: the empty dict while no time is      *)
(* recorded.                                                               *)
ProtocolMetrics ==
    IF teleportation_times = <<>> THEN <<>>
    ELSE [avg_teleportation_time |-> Mean(teleportation_times),
          std_teleportation_time |-> [squared |-> Variance(teleportation_times)],
          avg_fidelity |-> Mean(fidelities),
          min_fidelity |-> MinOf(fidelities),
          max_fidelity |-> MaxOf(fidelities),
          total_operations |-> Len(teleportation_times),
          total_entanglements |->
              IF entanglement_consumption # <<>> THEN MaxOf(entanglement_consumption)
              ELSE 0,
          error_count |-> Len(protocol_errors)]

(* get_network_stats and get_protocol_metrics read and return. *)
GetNetworkStats ==
    /\ pc = "idle"
    /\ result' = Returned("get_network_stats", NetworkStats)
    /\ NoDrainObserved
    /\ UNCHANGED <<node_vars, net_vars, metric_vars, sched_vars, frame_vars, wall,
                   drains, submitted, entangled>>

GetProtocolMetrics ==
    /\ pc = "idle"
    /\ result' = Returned("get_protocol_metrics", ProtocolMetrics)
    /\ NoDrainObserved
    /\ UNCHANGED <<node_vars, net_vars, metric_vars, sched_vars, frame_vars, wall,
                   drains, submitted, entangled>>

-----------------------------------------------------------------------------
(***************************************************************************)
(* QuantumScheduler                                                        *)
(***************************************************************************)
WorkItem(priority, timestamp, circuit_id, subcircuit) ==
    [priority |-> priority, timestamp |-> timestamp,
     circuit_id |-> circuit_id, subcircuit |-> subcircuit]

(* Subcircuit lists as the algorithm layer builds them: partition_id is    *)
(* the position in the list.                                               *)
Subcircuits(requirements) ==
    [i \in 1 .. Len(requirements) |->
        [required_qubits |-> requirements[i], partition_id |-> i - 1]]

Batches ==
    {Subcircuits(r) : r \in UNION {[1 .. n -> RequiredQubits] : n \in 1 .. MaxItems}}

(* The loop of schedule_circuit from list position i on; a failing push    *)
(* has already appended its item and ends the loop.                        *)
RECURSIVE PushAll(_, _, _, _, _)
PushAll(heap, subcircuits, i, priority, timestamp) ==
    IF i > Len(subcircuits) THEN [heap |-> heap, err |-> FALSE]
    ELSE LET h == HeapPush(heap, WorkItem(priority, timestamp, i - 1, subcircuits[i]))
         IN  IF h.err THEN h
             ELSE PushAll(h.heap, subcircuits, i + 1, priority, timestamp)

ScheduleCircuit(subcircuits, priority, timestamp) ==
    /\ pc = "idle"
    /\ submitted + Len(subcircuits) <= MaxItems
    /\ submitted' = submitted + Len(subcircuits)
    /\ timestamp \in {wall, wall + 1}
    /\ timestamp <= MaxWall
    /\ LET pushed == PushAll(schedule_queue, subcircuits, 1, priority, timestamp)
       IN  /\ schedule_queue' = pushed.heap
           /\ result' = IF pushed.err THEN Raised("schedule_circuit", "TypeError")
                        ELSE Returned("schedule_circuit", NoneVal)
    /\ wall' = timestamp
    /\ NoDrainObserved
    /\ UNCHANGED <<node_vars, net_vars, metric_vars, scheduling_history,
                   frame_vars, calls, aside_vars, drains, entangled>>

(* _find_available_node: nodes are visited in list order. *)
RECURSIVE FindFrom(_, _)
FindFrom(node, required_qubits) ==
    IF node >= NumNodes THEN NoneVal
    ELSE IF Cardinality(available_qubits[node]) >= required_qubits THEN node
    ELSE FindFrom(node + 1, required_qubits)

(* A search that visits the nodes from the last to the first. *)
RECURSIVE FindBack(_, _)
FindBack(node, required_qubits) ==
    IF node < 0 THEN NoneVal
    ELSE IF Cardinality(available_qubits[node]) >= required_qubits THEN node
    ELSE FindBack(node - 1, required_qubits)

FindLastAvailableNode(required_qubits) == FindBack(NumNodes - 1, required_qubits)

FindAvailableNode(required_qubits) == FindFrom(0, required_qubits)

(* The members of a set of ints in ascending order. *)
RECURSIVE Ascending(_)
Ascending(s) ==
    IF s = {} THEN <<>>
    ELSE LET least == CHOOSE x \in s : \A y \in s : x <= y
         IN  <<least>> \o Ascending(s \ {least})

(* list(s) of a set: the iteration order of a set is not specified.        *)
(* CPython gives a fresh set(range(n)) in ascending order, and a member    *)
(* that was removed and added again may come after the members that        *)
(* stayed. Two orders are taken: the ascending one, and the ascending one  *)
(* with the least member moved to the end.                                 *)
ListsOf(s) ==
    IF s = {} THEN {<<>>}
    ELSE {Ascending(s), Tail(Ascending(s)) \o <<Head(Ascending(s))>>}

(* The slice list[:k] for k >= 0. *)
Prefix(list, k) == SubSeq(list, 1, Min(k, Len(list)))

(* A slice that is one slot short. *)
FirstSlotsButOne(available, k) == {Prefix(list, k - 1) : list \in ListsOf(available)}

(* The possible values of list(node.available_qubits)[:required_qubits] *)
FirstSlots(available, k) == {Prefix(list, k) : list \in ListsOf(available)}

(* Lines 80-81: every used slot is removed from the available set. *)
SlotsTaken(available, used) == available \ Elements(used)

(* A release that gives nothing back. *)
SlotsKept(available, used) == available

(* A release that skips the first of the used slots. *)
SlotsFreedButFirst(available, used) ==
    available \cup Elements(SubSeq(used, 2, Len(used)))

(* Lines 90-91: every used slot is added to the available set. *)
SlotsFreed(available, used) == available \cup Elements(used)

(* An exception leaves execute_schedule: its frame is dropped. *)
DrainRaises(exception) ==
    /\ pc' = "idle"
    /\ temp_queue' = <<>>
    /\ execution_results' = <<>>
    /\ start_time' = 0
    /\ current' = NoneVal
    /\ target_node' = NoneVal
    /\ used_qubits' = <<>>
    /\ gate_index' = 0
    /\ execution_time' = 0
    /\ result' = Raised("execute_schedule", exception)

(* Lines 30-34: the queue is copied and the live queue replaced. *)
ExecuteScheduleBegin ==
    /\ pc = "idle"
    /\ drains < MaxDrains
    /\ start_time' = global_time
    /\ execution_results' = <<>>
    /\ temp_queue' = schedule_queue
    /\ schedule_queue' = <<>>
    /\ pc' = "loop"
    /\ snapshot' = schedule_queue
    /\ slots_before' = available_qubits
    /\ drain_log' = <<>>
    /\ arrivals' = <<>>
    /\ drains' = drains + 1
    /\ UNCHANGED <<node_vars, net_vars, metric_vars, scheduling_history, current,
                   target_node, used_qubits, gate_index, execution_time, wall,
                   result, calls, aside_vars, submitted, entangled>>

(* Line 37: heappop of the snapshot. *)
DrainPop ==
    /\ pc = "loop"
    /\ temp_queue # <<>>
    /\ LET popped == HeapPop(temp_queue)
       IN  IF popped.err
           THEN /\ DrainRaises("TypeError")
           ELSE /\ current' = popped.item
                /\ temp_queue' = popped.heap
                /\ pc' = "find"
                /\ UNCHANGED <<execution_results, start_time, target_node,
                               used_qubits, gate_index, execution_time, result>>
    /\ UNCHANGED <<node_vars, net_vars, metric_vars, sched_vars, wall, obs_vars,
                   calls, aside_vars, drains, submitted, entangled>>

(* Lines 40-51: placement, or re-insertion one priority step later. *)
DrainFind ==
    /\ pc = "find"
    /\ LET node == FindAvailableNode(current.subcircuit.required_qubits)
           pushed == HeapPush(schedule_queue,
                              [current EXCEPT !.priority = @ + 1])
       IN  IF node # NoneVal
           THEN /\ target_node' = node
                /\ pc' = "reserve"
                /\ UNCHANGED <<schedule_queue, drain_log, temp_queue,
                               execution_results, start_time, current,
                               used_qubits, gate_index, execution_time, result>>
           ELSE /\ schedule_queue' = pushed.heap
                /\ drain_log' = Append(drain_log, [item |-> current, node |-> NoneVal])
                /\ IF pushed.err
                   THEN DrainRaises("TypeError")
                   ELSE /\ pc' = "loop"
                        /\ UNCHANGED <<temp_queue, execution_results, start_time,
                                       current, target_node, used_qubits,
                                       gate_index, execution_time, result>>
    /\ UNCHANGED <<node_vars, net_vars, metric_vars, scheduling_history, wall,
                   snapshot, slots_before, arrivals, calls, aside_vars, drains,
                   submitted, entangled>>

(* Lines 76-84 of _execute_on_node: the slots are taken. *)
DrainReserve ==
    /\ pc = "reserve"
    /\ \E used \in FirstSlots(available_qubits[target_node],
                               current.subcircuit.required_qubits) :
           /\ used_qubits' = used
           /\ available_qubits' =
                  [available_qubits EXCEPT ![target_node] = SlotsTaken(@, used)]
    /\ execution_time' = BaseExecutionTime
    /\ gate_index' = 0
    /\ pc' = "gates"
    /\ UNCHANGED <<entangled_with, operation_history, total_operations, net_vars,
                   metric_vars, sched_vars, temp_queue, execution_results,
                   start_time, current, target_node, wall, result, obs_vars,
                   calls, aside_vars, drains, submitted, entangled>>

(* Lines 85-87: one H gate on slot index i, for i in range(required).      *)
DrainGate ==
    /\ pc = "gates"
    /\ gate_index < current.subcircuit.required_qubits
    /\ IF ValidQubits(<<gate_index>>)
       THEN /\ GateApplied(target_node, "H", <<gate_index>>, GateDuration)
            /\ execution_time' = execution_time + GateDuration
            /\ gate_index' = gate_index + 1
            /\ UNCHANGED <<pc, temp_queue, execution_results, start_time, current,
                           target_node, used_qubits, result>>
       ELSE /\ DrainRaises("ValueError")
            /\ UNCHANGED <<operation_history, total_operations>>
    /\ UNCHANGED <<available_qubits, entangled_with, net_vars, metric_vars,
                   sched_vars, wall, obs_vars, calls, aside_vars, drains, submitted,
                   entangled>>

(* Lines 89-98 and 45: the slots are given back, the result is recorded.   *)
DrainRelease ==
    /\ pc = "gates"
    /\ gate_index >= current.subcircuit.required_qubits
    /\ available_qubits' =
           [available_qubits EXCEPT ![target_node] = SlotsFreed(@, used_qubits)]
    /\ execution_results' =
           Append(execution_results,
                  [node_id |-> target_node,
                   subcircuit_id |-> current.subcircuit.partition_id,
                   execution_time |-> execution_time,
                   qubits_used |-> used_qubits])
    /\ drain_log' = Append(drain_log, [item |-> current, node |-> target_node])
    /\ pc' = "loop"
    /\ UNCHANGED <<entangled_with, operation_history, total_operations, net_vars,
                   metric_vars, sched_vars, temp_queue, start_time, current,
                   target_node, used_qubits, gate_index, execution_time, wall,
                   result, snapshot, slots_before, arrivals, calls, aside_vars,
                   drains, submitted, entangled>>

(* Lines 53-65: the analysis of the finished drain. *)
(* The analysis with the efficiency taken over the executed items alone. *)
ScheduleAnalysisExecutedOnly(total_time, executed, pending) ==
    [total_execution_time |-> total_time,
     circuits_executed |-> executed,
     average_circuit_time |-> Ratio(total_time, Max(1, executed)),
     node_utilization |-> [n \in Nodes |-> GetUtilization(n)],
     schedule_efficiency |-> Ratio(executed, Max(1, executed))]

(* An analysis whose total time is the sum of the completion entries. *)
ScheduleAnalysisSummedTimes(total_time, executed, pending) ==
    LET summed == SumOf([i \in 1 .. Len(execution_results) |->
                            execution_results[i].execution_time])
    IN  [total_execution_time |-> summed,
         circuits_executed |-> executed,
         average_circuit_time |-> Ratio(summed, Max(1, executed)),
         node_utilization |-> [n \in Nodes |-> GetUtilization(n)],
         schedule_efficiency |-> Ratio(executed, Max(1, pending + executed))]

ScheduleAnalysis(total_time, executed, pending) ==
    [total_execution_time |-> total_time,
     circuits_executed |-> executed,
     average_circuit_time |-> Ratio(total_time, Max(1, executed)),
     node_utilization |-> [n \in Nodes |-> GetUtilization(n)],
     schedule_efficiency |-> Ratio(executed, Max(1, pending + executed))]

DrainFinish ==
    /\ pc = "loop"
    /\ temp_queue = <<>>
    /\ LET analysis == ScheduleAnalysis(global_time - start_time,
                                        Len(execution_results),
                                        Len(schedule_queue))
       IN  /\ scheduling_history' = Append(scheduling_history, analysis)
           /\ result' = Returned("execute_schedule", analysis)
    /\ pc' = "idle"
    /\ execution_results' = <<>>
    /\ start_time' = 0
    /\ current' = NoneVal
    /\ target_node' = NoneVal
    /\ used_qubits' = <<>>
    /\ gate_index' = 0
    /\ execution_time' = 0
    /\ UNCHANGED <<node_vars, net_vars, metric_vars, schedule_queue, temp_queue,
                   wall, obs_vars, calls, aside_vars, drains, submitted, entangled>>

ExecuteScheduleStep ==
    \/ ExecuteScheduleBegin
    \/ DrainPop
    \/ DrainFind
    \/ DrainReserve
    \/ DrainGate
    \/ DrainRelease
    \/ DrainFinish

(***************************************************************************)
(* The scheduler driven by one caller: submissions, drains and slot        *)
(* resets on a network with the default latency.                           *)
(***************************************************************************)
InitSched == InitWith(20)

NextSched ==
    \/ \E batch \in Batches, priority \in Priorities, timestamp \in 0 .. MaxWall :
           ScheduleCircuit(batch, priority, timestamp)
    \/ ExecuteScheduleStep
    \/ \E node \in Nodes, qubit_idx \in SlotArgs :
           ResetQubit(node, qubit_idx) /\ UNCHANGED <<calls, aside_vars>>

SpecSched == InitSched /\ [][NextSched]_vars

(* The same caller, who goes on calling execute_schedule and lets every    *)
(* call it starts run to its end.                                          *)
SpecSchedFair == SpecSched /\ WF_vars(ExecuteScheduleStep)

(***************************************************************************)
(* The scheduler shared by two threads: one calls execute_schedule, which  *)
(* is followed statement by statement from its first line on, the other    *)
(* calls schedule_circuit at any point of it.                              *)
(***************************************************************************)
(* Lines 30-33: the queue is copied. *)
DrainCopy ==
    /\ pc = "idle"
    /\ drains < MaxDrains
    /\ start_time' = global_time
    /\ execution_results' = <<>>
    /\ temp_queue' = schedule_queue
    /\ pc' = "clear"
    /\ snapshot' = schedule_queue
    /\ slots_before' = available_qubits
    /\ drain_log' = <<>>
    /\ arrivals' = <<>>
    /\ drains' = drains + 1
    /\ UNCHANGED <<node_vars, net_vars, metric_vars, sched_vars, current,
                   target_node, used_qubits, gate_index, execution_time, wall,
                   result, calls, aside_vars, submitted, entangled>>

(* Line 34: the live queue is replaced by an empty one. *)
DrainClear ==
    /\ pc = "clear"
    /\ schedule_queue' = <<>>
    /\ pc' = "loop"
    /\ UNCHANGED <<node_vars, net_vars, metric_vars, scheduling_history,
                   temp_queue, execution_results, start_time, current,
                   target_node, used_qubits, gate_index, execution_time, wall,
                   result, obs_vars, calls, aside_vars, drains, submitted,
                   entangled>>

(* schedule_circuit called by the other thread while the drain runs. *)
ScheduleDuringDrain(subcircuits, priority, timestamp) ==
    /\ pc # "idle"
    /\ submitted + Len(subcircuits) <= MaxItems
    /\ submitted' = submitted + Len(subcircuits)
    /\ timestamp \in {wall, wall + 1}
    /\ timestamp <= MaxWall
    /\ LET pushed == PushAll(schedule_queue, subcircuits, 1, priority, timestamp)
           entries == [i \in 1 .. Len(subcircuits) |->
                          WorkItem(priority, timestamp, i - 1, subcircuits[i])]
       IN  /\ schedule_queue' = pushed.heap
           /\ result' = IF pushed.err THEN Raised("schedule_circuit", "TypeError")
                        ELSE Returned("schedule_circuit", NoneVal)
           /\ arrivals' = arrivals \o SubSeq(entries, 1, Len(pushed.heap)
                                                        - Len(schedule_queue))
    /\ wall' = timestamp
    /\ UNCHANGED <<node_vars, net_vars, metric_vars, scheduling_history,
                   frame_vars, snapshot, slots_before, drain_log, calls,
                   aside_vars, drains, entangled>>

NextShared ==
    \/ \E batch \in Batches, priority \in Priorities, timestamp \in 0 .. MaxWall :
           ScheduleCircuit(batch, priority, timestamp)
    \/ \E batch \in Batches, priority \in Priorities, timestamp \in 0 .. MaxWall :
           ScheduleDuringDrain(batch, priority, timestamp)
    \/ DrainCopy
    \/ DrainClear
    \/ DrainPop
    \/ DrainFind
    \/ DrainReserve
    \/ DrainGate
    \/ DrainRelease
    \/ DrainFinish

SpecShared == InitSched /\ [][NextShared]_vars

(***************************************************************************)
(* Two threads that both call execute_schedule on the same scheduler: the  *)
(* first call runs in the frame above, the second in the frame other, and  *)
(* their statements interleave.                                            *)
(***************************************************************************)
(* Lines 30-34 of the second call. *)
OtherBegin ==
    /\ other.pc = "idle"
    /\ drains < MaxDrains
    /\ other' = [NoFrame EXCEPT !.pc = "loop", !.temp_queue = schedule_queue,
                                !.start_time = global_time]
    /\ schedule_queue' = <<>>
    /\ drains' = drains + 1
    /\ UNCHANGED <<node_vars, net_vars, metric_vars, scheduling_history,
                   frame_vars, wall, result, obs_vars, calls, replay_vars,
                   submitted, entangled>>

(* Line 37 of the second call. *)
OtherPop ==
    /\ other.pc = "loop"
    /\ other.temp_queue # <<>>
    /\ LET popped == HeapPop(other.temp_queue)
       IN  IF popped.err
           THEN /\ other' = NoFrame
                /\ result' = Raised("execute_schedule", "TypeError")
           ELSE /\ other' = [other EXCEPT !.pc = "find", !.current = popped.item,
                                          !.temp_queue = popped.heap]
                /\ result' = result
    /\ UNCHANGED <<node_vars, net_vars, metric_vars, sched_vars, frame_vars,
                   wall, obs_vars, calls, replay_vars, drains, submitted,
                   entangled>>

(* Lines 40-51 of the second call. *)
OtherFind ==
    /\ other.pc = "find"
    /\ LET node == FindAvailableNode(other.current.subcircuit.required_qubits)
           pushed == HeapPush(schedule_queue,
                              [other.current EXCEPT !.priority = @ + 1])
       IN  IF node # NoneVal
           THEN /\ other' = [other EXCEPT !.pc = "reserve", !.target_node = node]
                /\ UNCHANGED <<schedule_queue, result>>
           ELSE /\ schedule_queue' = pushed.heap
                /\ IF pushed.err
                   THEN /\ other' = NoFrame
                        /\ result' = Raised("execute_schedule", "TypeError")
                   ELSE /\ other' = [other EXCEPT !.pc = "loop"]
                        /\ result' = result
    /\ UNCHANGED <<node_vars, net_vars, metric_vars, scheduling_history,
                   frame_vars, wall, obs_vars, calls, replay_vars, drains,
                   submitted, entangled>>

(* Lines 76-84 of the second call. *)
OtherReserve ==
    /\ other.pc = "reserve"
    /\ \E used \in FirstSlots(available_qubits[other.target_node],
                               other.current.subcircuit.required_qubits) :
           /\ other' = [other EXCEPT !.pc = "gates", !.used_qubits = used,
                                     !.gate_index = 0,
                                     !.execution_time = BaseExecutionTime]
           /\ available_qubits' =
                  [available_qubits EXCEPT ![other.target_node] = SlotsTaken(@, used)]
    /\ UNCHANGED <<entangled_with, operation_history, total_operations, net_vars,
                   metric_vars, sched_vars, frame_vars, wall, result, obs_vars,
                   calls, replay_vars, drains, submitted, entangled>>

(* Lines 85-87 of the second call. *)
OtherGate ==
    /\ other.pc = "gates"
    /\ other.gate_index < other.current.subcircuit.required_qubits
    /\ IF ValidQubits(<<other.gate_index>>)
       THEN /\ GateApplied(other.target_node, "H", <<other.gate_index>>, GateDuration)
            /\ other' = [other EXCEPT !.gate_index = @ + 1,
                                      !.execution_time = @ + GateDuration]
            /\ result' = result
       ELSE /\ other' = NoFrame
            /\ result' = Raised("execute_schedule", "ValueError")
            /\ UNCHANGED <<operation_history, total_operations>>
    /\ UNCHANGED <<available_qubits, entangled_with, net_vars, metric_vars,
                   sched_vars, frame_vars, wall, obs_vars, calls, replay_vars,
                   drains, submitted, entangled>>

(* Lines 89-98 and 45 of the second call. *)
OtherRelease ==
    /\ other.pc = "gates"
    /\ other.gate_index >= other.current.subcircuit.required_qubits
    /\ available_qubits' =
           [available_qubits EXCEPT
               ![other.target_node] = SlotsFreed(@, other.used_qubits)]
    /\ other' =
           [other EXCEPT
               !.pc = "loop",
               !.execution_results =
                   Append(@, [node_id |-> other.target_node,
                              subcircuit_id |-> other.current.subcircuit.partition_id,
                              execution_time |-> other.execution_time,
                              qubits_used |-> other.used_qubits])]
    /\ UNCHANGED <<entangled_with, operation_history, total_operations, net_vars,
                   metric_vars, sched_vars, frame_vars, wall, result, obs_vars,
                   calls, replay_vars, drains, submitted, entangled>>

(* Lines 53-65 of the second call. *)
OtherFinish ==
    /\ other.pc = "loop"
    /\ other.temp_queue = <<>>
    /\ LET analysis == ScheduleAnalysis(global_time - other.start_time,
                                        Len(other.execution_results),
                                        Len(schedule_queue))
       IN  /\ scheduling_history' = Append(scheduling_history, analysis)
           /\ result' = Returned("execute_schedule", analysis)
    /\ other' = NoFrame
    /\ UNCHANGED <<node_vars, net_vars, metric_vars, schedule_queue, frame_vars,
                   wall, obs_vars, calls, replay_vars, drains, submitted,
                   entangled>>

NextTwoDrains ==
    \/ \E batch \in Batches, priority \in Priorities :
           /\ submitted + Len(batch) <= MaxCalls
           /\ ScheduleCircuit(batch, priority, wall)
    \/ ExecuteScheduleStep
    \/ OtherBegin
    \/ OtherPop
    \/ OtherFind
    \/ OtherReserve
    \/ OtherGate
    \/ OtherRelease
    \/ OtherFinish

SpecTwoDrains == InitSched /\ [][NextTwoDrains]_vars

-----------------------------------------------------------------------------
(***************************************************************************)
(* The network and its nodes driven directly: entanglement requests, gates *)
(* and slot resets, for each latency, MaxCalls calls in all.               *)
(***************************************************************************)
InitNet == \E latency \in Latencies : InitWith(latency)

CallCounted == calls < MaxCalls /\ calls' = calls + 1 /\ UNCHANGED aside_vars

NextNet ==
    \/ \E node1 \in NodeArgs, qubit1 \in SlotArgs, node2 \in NodeArgs, qubit2 \in SlotArgs :
           CallCounted /\ CreateEntanglement(node1, qubit1, node2, qubit2)
    \/ \E node \in Nodes, qubits \in QubitLists, duration \in Durations :
           CallCounted /\ ExecuteGate(node, "X", qubits, duration)
    \/ \E node \in Nodes, qubit_idx \in SlotArgs :
           CallCounted /\ ResetQubit(node, qubit_idx)

SpecNet == InitNet /\ [][NextNet]_vars

(***************************************************************************)
(* The protocol engine on its network: teleportations, remote gates,       *)
(* direct entanglement requests and slot resets, MaxCalls calls in all.    *)
(***************************************************************************)
MeasurementResults == {<<b0, b1>> : b0 \in {0, 1}, b1 \in {0, 1}}

(* (node, slot, node, slot) arguments: valid pairs in both directions and  *)
(* on two slots, and one tuple for each way of being invalid.              *)
ProtocolArgs ==
    {<<0, 0, 1, 0>>, <<1, 0, 0, 0>>, <<0, 0, 1, QubitsPerNode - 1>>,
     <<1, QubitsPerNode - 1, 0, QubitsPerNode - 1>>,
     <<0, 0, 0, 1>>, <<0, 0, NumNodes, 0>>, <<-1, 0, 1, 0>>, <<0, 0, -1, 0>>,
     <<0, QubitsPerNode, 1, 0>>, <<0, 0, 1, -1>>}

NextProto ==
    \/ \E args \in ProtocolArgs, bits \in MeasurementResults, noise \in Noises :
           CallCounted /\ TeleportQubit(args[1], args[2], args[3], args[4], bits, noise)
    \/ \E args \in ProtocolArgs, gate_type \in GateKinds, noise \in GateNoises :
           CallCounted
           /\ RemoteGateOperation(args[1], args[2], args[3], args[4], gate_type, noise)
    \/ \E args \in ProtocolArgs :
           CallCounted /\ CreateEntanglement(args[1], args[2], args[3], args[4])
    \/ \E node \in Nodes, qubit_idx \in SlotArgs :
           CallCounted /\ ResetQubit(node, qubit_idx)
    \/ CallCounted /\ GetProtocolMetrics

SpecProto == InitNet /\ [][NextProto]_vars

(* The same calls without reset_qubit. *)
NextNoReset ==
    \/ \E args \in ProtocolArgs, bits \in MeasurementResults, noise \in Noises :
           CallCounted /\ TeleportQubit(args[1], args[2], args[3], args[4], bits, noise)
    \/ \E args \in ProtocolArgs, gate_type \in GateKinds, noise \in GateNoises :
           CallCounted
           /\ RemoteGateOperation(args[1], args[2], args[3], args[4], gate_type, noise)
    \/ \E args \in ProtocolArgs :
           CallCounted /\ CreateEntanglement(args[1], args[2], args[3], args[4])
    \/ CallCounted /\ GetProtocolMetrics

SpecNoReset == InitNet /\ [][NextNoReset]_vars

(* Protocol calls keep being made while the caller has calls left. *)
SpecProtoFair == SpecProto /\ WF_vars(NextProto)

-----------------------------------------------------------------------------
(***************************************************************************)
(* All operations on one network, protocol engine and scheduler, for each  *)
(* latency: MaxCalls calls in all, a submitted subcircuit counting as one. *)
(***************************************************************************)
CallStarts == calls + submitted + drains < MaxCalls

(* (node, slot, node, slot) arguments: valid in both directions, and on    *)
(* the same node.                                                          *)
CoreArgs == {<<0, 0, 1, 0>>, <<1, QubitsPerNode - 1, 0, 0>>, <<0, 0, 0, 1>>}

NextAll ==
    \/ \E args \in CoreArgs, bits \in {<<0, 0>>, <<1, 1>>} :
           CallStarts /\ CallCounted
           /\ TeleportQubit(args[1], args[2], args[3], args[4], bits, 0)
    \/ \E args \in CoreArgs, gate_type \in {"CNOT", "H"} :
           CallStarts /\ CallCounted
           /\ RemoteGateOperation(args[1], args[2], args[3], args[4], gate_type, 0)
    \/ \E args \in CoreArgs :
           CallStarts /\ CallCounted
           /\ CreateEntanglement(args[1], args[2], args[3], args[4])
    \/ \E node \in Nodes, qubits \in {<<0>>, <<QubitsPerNode>>} :
           CallStarts /\ CallCounted /\ ExecuteGate(node, "X", qubits, GateDuration)
    \/ \E node \in Nodes, qubit_idx \in {0, QubitsPerNode} :
           CallStarts /\ CallCounted /\ ResetQubit(node, qubit_idx)
    \/ CallStarts /\ CallCounted /\ GetNetworkStats
    \/ CallStarts /\ CallCounted /\ GetProtocolMetrics
    \/ \E batch \in Batches, priority \in Priorities, timestamp \in 0 .. MaxWall :
           CallStarts /\ ScheduleCircuit(batch, priority, timestamp)
    \/ CallStarts /\ ExecuteScheduleBegin
    \/ DrainPop
    \/ DrainFind
    \/ DrainReserve
    \/ DrainGate
    \/ DrainRelease
    \/ DrainFinish

SpecAll == InitNet /\ [][NextAll]_vars

-----------------------------------------------------------------------------
(***************************************************************************)
(* The scheduler on a network whose clock is running: entanglement         *)
(* requests and teleportations between the calls of the scheduler, with   *)
(* one more call, submitted item or drain than MaxCalls in all.            *)
(***************************************************************************)
ClockedStarts == calls + submitted + drains <= MaxCalls

NextClocked ==
    \/ \E args \in CoreArgs :
           ClockedStarts /\ CallCounted
           /\ CreateEntanglement(args[1], args[2], args[3], args[4])
    \/ \E args \in CoreArgs, bits \in {<<0, 0>>, <<1, 1>>} :
           ClockedStarts /\ CallCounted
           /\ TeleportQubit(args[1], args[2], args[3], args[4], bits, 0)
    \/ \E batch \in Batches, priority \in Priorities :
           ClockedStarts /\ ScheduleCircuit(batch, priority, wall)
    \/ ClockedStarts /\ ExecuteScheduleBegin
    \/ DrainPop
    \/ DrainFind
    \/ DrainReserve
    \/ DrainGate
    \/ DrainRelease
    \/ DrainFinish

SpecClocked == InitNet /\ [][NextClocked]_vars

-----------------------------------------------------------------------------
(***************************************************************************)
(* Two runs of the protocol engine. The random source is a tape of draws:  *)
(* a teleportation that gets past its entanglement step takes the next     *)
(* (measurement bits, noise) draw, a failing one takes none. The first run *)
(* makes up to MaxCalls teleport_qubit calls; the second run starts from a *)
(* newly built network with the same latency, at a later wall-clock time,  *)
(* and repeats the calls with the tape of the first.                       *)
(***************************************************************************)
(* The draws the calls of a log have taken, in order. *)
RECURSIVE TapeOf(_)
TapeOf(log) ==
    IF log = <<>> THEN <<>>
    ELSE TapeOf(SubSeq(log, 1, Len(log) - 1)) \o log[Len(log)].drawn

(* What a run leaves behind: the clock, the registry and the metrics. *)
RunState ==
    [global_time |-> global_time,
     entanglement_pairs |-> entanglement_pairs,
     teleportation_times |-> teleportation_times,
     fidelities |-> fidelities,
     entanglement_consumption |-> entanglement_consumption,
     protocol_errors |-> protocol_errors]

Logged(args, bits, noise, outcome) ==
    [args |-> args,
     drawn |-> IF outcome.status = "ok" THEN <<<<bits, noise>>>> ELSE <<>>,
     output |-> outcome]

FirstRunCall ==
    /\ ~first_run.done
    /\ Len(run_log) < MaxCalls
    /\ \E args \in CoreArgs, bits \in MeasurementResults, noise \in Noises :
           /\ TeleportQubit(args[1], args[2], args[3], args[4], bits, noise)
           /\ run_log' = Append(run_log, Logged(args, bits, noise, result'))
    /\ calls' = calls + 1
    /\ first_run' = first_run
    /\ other' = other

(* The second run begins: every object is constructed anew. *)
SecondRunBegins ==
    /\ ~first_run.done
    /\ run_log # <<>>
    /\ first_run' = [done |-> TRUE, log |-> run_log, tape |-> TapeOf(run_log),
                     final |-> RunState]
    /\ run_log' = <<>>
    /\ other' = other
    /\ available_qubits' = [n \in Nodes |-> Slots]
    /\ entangled_with' = [n \in Nodes |-> [q \in Slots |-> NoRef]]
    /\ operation_history' = [n \in Nodes |-> <<>>]
    /\ total_operations' = [n \in Nodes |-> 0]
    /\ entanglement_pairs' = <<>>
    /\ global_time' = 0
    /\ teleportation_times' = <<>>
    /\ fidelities' = <<>>
    /\ entanglement_consumption' = <<>>
    /\ protocol_errors' = <<>>
    /\ wall' \in {wall, wall + 1}
    /\ wall' <= MaxWall
    /\ result' = [op |-> "init", status |-> "ok", value |-> NoneVal]
    /\ calls' = 0
    /\ entangled' = 0
    /\ UNCHANGED <<communication_latency, sched_vars, frame_vars, obs_vars,
                   drains, submitted>>

SecondRunCall ==
    /\ first_run.done
    /\ Len(run_log) < Len(first_run.log)
    /\ LET args == first_run.log[Len(run_log) + 1].args
           next == Len(TapeOf(run_log)) + 1
       IN  \E bits \in MeasurementResults, noise \in Noises :
               /\ next <= Len(first_run.tape) => <<bits, noise>> = first_run.tape[next]
               /\ TeleportQubit(args[1], args[2], args[3], args[4], bits, noise)
               /\ run_log' = Append(run_log, Logged(args, bits, noise, result'))
    /\ calls' = calls + 1
    /\ first_run' = first_run
    /\ other' = other

NextTwoRuns ==
    \/ FirstRunCall
    \/ SecondRunBegins
    \/ SecondRunCall

SpecTwoRuns == InitNet /\ [][NextTwoRuns]_vars

-----------------------------------------------------------------------------
(***************************************************************************)
(* Properties of the scheduler.                                            *)
(***************************************************************************)
(* Number of occurrences of x in a list. *)
Count(x, list) == Cardinality({i \in 1 .. Len(list) : list[i] = x})

(* The drain that was called last has ended, by return or by exception. *)
DrainEnded == pc = "idle" /\ result.op = "execute_schedule"
DrainReturned == DrainEnded /\ result.status = "ok"

(* Larger than the available-slot count of every node. *)
Unplaceable(item) ==
    \A n \in Nodes : item.subcircuit.required_qubits > Cardinality(available_qubits[n])

Requeued(item) == [item EXCEPT !.priority = @ + 1]

ExecutedIn(log, item) ==
    Cardinality({i \in 1 .. Len(log) : log[i].item = item /\ log[i].node # NoneVal})

(* C1: every work item larger than every node is not executed by a drain   *)
(* and is pending afterwards with its priority raised by exactly 1 and its *)
(* timestamp and sequence index unchanged; three such items submitted      *)
(* together give circuits_executed = 0, schedule_efficiency = 0 and three  *)
(* pending items.                                                          *)
C1_UnplaceableRequeued ==
    DrainEnded =>
        /\ \A i \in 1 .. Len(snapshot) :
               Unplaceable(snapshot[i]) =>
                   /\ ExecutedIn(drain_log, snapshot[i]) = 0
                   /\ Count(Requeued(snapshot[i]), schedule_queue)
                          = Count(snapshot[i], snapshot)
        /\ (\A i \in 1 .. Len(snapshot) : Unplaceable(snapshot[i])) =>
               /\ result.status = "ok"
               /\ result.value.circuits_executed = 0
               /\ result.value.schedule_efficiency.num = 0
               /\ Len(schedule_queue) = Len(snapshot)

(* The same statement for drains that return. *)
C1_WhenReturned ==
    DrainReturned =>
        /\ \A i \in 1 .. Len(snapshot) :
               Unplaceable(snapshot[i]) =>
                   /\ ExecutedIn(drain_log, snapshot[i]) = 0
                   /\ Count(Requeued(snapshot[i]), schedule_queue)
                          = Count(snapshot[i], snapshot)
        /\ (\A i \in 1 .. Len(snapshot) : Unplaceable(snapshot[i])) =>
               /\ result.value.circuits_executed = 0
               /\ result.value.schedule_efficiency.num = 0
               /\ Len(schedule_queue) = Len(snapshot)

(* C2: every pending item that fits some node is executed in the drain     *)
(* that finds it pending; when all fit, circuits_executed is their number  *)
(* and schedule_efficiency is 1.                                           *)
C2_PlaceableExecuted ==
    DrainEnded =>
        /\ \A i \in 1 .. Len(snapshot) :
               ~Unplaceable(snapshot[i]) =>
                   ExecutedIn(drain_log, snapshot[i]) = Count(snapshot[i], snapshot)
        /\ (snapshot # <<>> /\ \A i \in 1 .. Len(snapshot) : ~Unplaceable(snapshot[i])) =>
               /\ result.status = "ok"
               /\ result.value.circuits_executed = Len(snapshot)
               /\ result.value.schedule_efficiency.num
                      = result.value.schedule_efficiency.den

C2_WhenReturned ==
    DrainReturned =>
        /\ \A i \in 1 .. Len(snapshot) :
               ~Unplaceable(snapshot[i]) =>
                   ExecutedIn(drain_log, snapshot[i]) = Count(snapshot[i], snapshot)
        /\ (snapshot # <<>> /\ \A i \in 1 .. Len(snapshot) : ~Unplaceable(snapshot[i])) =>
               /\ result.value.circuits_executed = Len(snapshot)
               /\ result.value.schedule_efficiency.num
                      = result.value.schedule_efficiency.den

(* The ordering key of a work item, compared lexicographically. *)
KeyLt(a, b) ==
    \/ a.priority < b.priority
    \/ a.priority = b.priority /\ a.timestamp < b.timestamp
    \/ a.priority = b.priority /\ a.timestamp = b.timestamp
           /\ a.circuit_id < b.circuit_id

(* The items the running or last drain has taken from its snapshot, in the *)
(* order it took them.                                                     *)
Processed ==
    [i \in 1 .. Len(drain_log) |-> drain_log[i].item]
        \o (IF pc \in {"find", "reserve", "gates"} THEN <<current>> ELSE <<>>)

(* C3: within one drain the items are processed in ascending order of      *)
(* (priority, timestamp, sequence index): no item is processed before one  *)
(* with a strictly smaller key, whether that one was processed later or is *)
(* still waiting in the snapshot.                                          *)
C3_AscendingOrder ==
    /\ \A i, j \in 1 .. Len(Processed) :
           i < j => ~KeyLt(Processed[j], Processed[i])
    /\ \A i \in 1 .. Len(Processed), j \in 1 .. Len(temp_queue) :
           ~KeyLt(temp_queue[j], Processed[i])

(* A drain that processed three items with strictly increasing keys, one   *)
(* by priority against a later timestamp.                                  *)
C3_Witness ==
    /\ DrainReturned
    /\ Len(drain_log) = 3
    /\ KeyLt(drain_log[1].item, drain_log[2].item)
    /\ KeyLt(drain_log[2].item, drain_log[3].item)
    /\ \E i \in 1 .. 2 :
           /\ drain_log[i].item.priority < drain_log[i + 1].item.priority
           /\ drain_log[i].item.timestamp > drain_log[i + 1].item.timestamp

(* The nodes with at least as many available slots as the item requires. *)
Qualifying(item) ==
    {n \in Nodes : Cardinality(available_qubits[n]) >= item.subcircuit.required_qubits}

(* The placement decision for the item just taken has been made. *)
PlacementDecided == pc = "find" /\ pc' # "find"

(* C4: an item goes to the smallest node id among the nodes with enough    *)
(* available slots, and it is re-queued only when there is no such node.   *)
C4_SmallestQualifyingNode ==
    [][PlacementDecided =>
          IF Qualifying(current) # {}
          THEN /\ pc' = "reserve"
               /\ target_node' \in Qualifying(current)
               /\ \A n \in Qualifying(current) : target_node' <= n
               /\ schedule_queue' = schedule_queue
          ELSE /\ pc' \in {"loop", "idle"}
               /\ Len(schedule_queue') = Len(schedule_queue) + 1
               /\ Count(Requeued(current), schedule_queue')
                      = Count(Requeued(current), schedule_queue) + 1]_vars

(* A drain that re-queued one item and has placed the next one. *)
C4_Witness ==
    /\ pc = "reserve"
    /\ target_node = 0
    /\ Qualifying(current) = Nodes
    /\ \E i \in 1 .. Len(drain_log) : drain_log[i].node = NoneVal
    /\ schedule_queue # <<>>

(* C5: a drain never raises, and every item pending at its start is        *)
(* afterwards either executed once or pending once: nothing is lost or     *)
(* duplicated, and executed + pending after = pending before.              *)
C5_NoRaiseAndConservation ==
    DrainEnded =>
        /\ result.status = "ok"
        /\ \A i \in 1 .. Len(snapshot) :
               ExecutedIn(drain_log, snapshot[i])
                   + Count(Requeued(snapshot[i]), schedule_queue)
                   = Count(snapshot[i], snapshot)
        /\ result.value.circuits_executed + Len(schedule_queue) = Len(snapshot)

(* The conservation part for drains that return. *)
C5_WhenReturned ==
    DrainReturned =>
        /\ \A i \in 1 .. Len(snapshot) :
               ExecutedIn(drain_log, snapshot[i])
                   + Count(Requeued(snapshot[i]), schedule_queue)
                   = Count(snapshot[i], snapshot)
        /\ result.value.circuits_executed + Len(schedule_queue) = Len(snapshot)

(* C6: every available-slot set is within 0 .. QubitsPerNode - 1; a slot   *)
(* is missing from it only while the item placed on that node is executing *)
(* and holds that slot; and when execute_schedule has ended every node has *)
(* the available-slot set it had when the call began.                      *)
C6_SlotAccounting ==
    /\ \A n \in Nodes : available_qubits[n] \subseteq Slots
    /\ \A n \in Nodes : \A q \in Slots \ available_qubits[n] :
           /\ pc = "gates"
           /\ n = target_node
           /\ \E i \in 1 .. Len(used_qubits) : used_qubits[i] = q
    /\ DrainEnded => available_qubits = slots_before

(* The second executing item of a drain holds its slots, the first item's  *)
(* slots having been given back.                                           *)
C6_Witness ==
    /\ pc = "gates"
    /\ \E i \in 1 .. Len(drain_log) : drain_log[i].node = target_node
    /\ used_qubits # <<>>
    /\ available_qubits[target_node] # Slots
    /\ \A i \in 1 .. Len(used_qubits) : used_qubits[i] \notin available_qubits[target_node]
    /\ available_qubits[target_node] \cup {used_qubits[i] : i \in 1 .. Len(used_qubits)}
           = slots_before[target_node]

-----------------------------------------------------------------------------
(***************************************************************************)
(* Properties of the network and its nodes.                                *)
(***************************************************************************)
InRange(x, n) == 0 <= x /\ x < n

(* The arguments create_entanglement must reject. *)
BadEntanglementArgs(node1, qubit1, node2, qubit2) ==
    \/ node1 = node2
    \/ ~InRange(node1, NumNodes)
    \/ ~InRange(node2, NumNodes)
    \/ ~InRange(qubit1, QubitsPerNode)
    \/ ~InRange(qubit2, QubitsPerNode)

(* C7: create_entanglement fails on equal nodes, on a node id outside      *)
(* 0 .. NumNodes - 1 and on a slot outside 0 .. QubitsPerNode - 1; every   *)
(* failure leaves the clock, the registry and all back-references as they  *)
(* were.                                                                   *)
C7_FailureChangesNothing ==
    [][(\E node1 \in NodeArgs, qubit1 \in SlotArgs, node2 \in NodeArgs, qubit2 \in SlotArgs :
           /\ BadEntanglementArgs(node1, qubit1, node2, qubit2)
           /\ CreateEntanglement(node1, qubit1, node2, qubit2))
       => /\ result'.op = "create_entanglement"
          /\ result'.status # "ok"
          /\ global_time' = global_time
          /\ entanglement_pairs' = entanglement_pairs
          /\ entangled_with' = entangled_with]_vars

(* A rejected call after a successful one: the registered pair and the     *)
(* clock advance of the first call are still there.                        *)
C7_Witness ==
    /\ result.op = "create_entanglement"
    /\ result.status = "ValueError"
    /\ Len(entanglement_pairs) = 1
    /\ global_time > 0
    /\ \E n \in Nodes, q \in Slots : entangled_with[n][q] # NoRef

(* C8: a successful create_entanglement advances the clock by 1.5 times    *)
(* the latency, returns that amount, appends the one entry                 *)
(* ((node1, qubit1), (node2, qubit2)) at the end of the registry and makes *)
(* the two slots refer to each other, whatever they referred to before.    *)
C8_SuccessEffects ==
    [][\A node1 \in NodeArgs, qubit1 \in SlotArgs, node2 \in NodeArgs, qubit2 \in SlotArgs :
          (/\ ~BadEntanglementArgs(node1, qubit1, node2, qubit2)
           /\ CreateEntanglement(node1, qubit1, node2, qubit2))
          => /\ result'.op = "create_entanglement"
             /\ result'.status = "ok"
             /\ 2 * (global_time' - global_time) = 3 * communication_latency
             /\ result'.value = global_time' - global_time
             /\ entanglement_pairs' =
                    Append(entanglement_pairs, <<<<node1, qubit1>>, <<node2, qubit2>>>>)
             /\ entangled_with'[node1][qubit1] = <<node2, qubit2>>
             /\ entangled_with'[node2][qubit2] = <<node1, qubit1>>]_vars

(* Two successful calls on the same first slot with different partners:    *)
(* the slot was entangled already and now refers to the second partner.    *)
C8_Witness ==
    /\ result.op = "create_entanglement"
    /\ result.status = "ok"
    /\ result.value > 0
    /\ Len(entanglement_pairs) = 2
    /\ entanglement_pairs[1][1] = entanglement_pairs[2][1]
    /\ entanglement_pairs[1][2] # entanglement_pairs[2][2]
    /\ entangled_with[entanglement_pairs[2][1][1]][entanglement_pairs[2][1][2]]
           = entanglement_pairs[2][2]

(* C9: the registry only grows, one entry per successful                   *)
(* create_entanglement execution whether called directly, by a             *)
(* teleportation or by a controlled remote gate; its length, which the     *)
(* stats report as active_entanglements, is the number of those            *)
(* executions, and no operation removes or rewrites an entry.              *)
C9_RegistryAppendOnly ==
    /\ [](/\ Len(entanglement_pairs) = entangled
          /\ NetworkStats.active_entanglements = entangled)
    /\ [][/\ Len(entanglement_pairs') \in {Len(entanglement_pairs),
                                           Len(entanglement_pairs) + 1}
          /\ SubSeq(entanglement_pairs', 1, Len(entanglement_pairs))
                 = entanglement_pairs]_vars

(* The registry holds a pair and, after it, the same pair reversed. *)
C9_Witness ==
    /\ Len(entanglement_pairs) = 2
    /\ entangled = 2
    /\ entanglement_pairs[2] = <<entanglement_pairs[1][2], entanglement_pairs[1][1]>>

(* C10: execute_gate with a slot index outside 0 .. QubitsPerNode - 1      *)
(* fails and leaves the node's log and counter as they were; with indices  *)
(* in range it appends one record, adds one to the counter and returns the *)
(* duration it was given.                                                  *)
C10_GateRangeCheck ==
    [][\A node \in Nodes, qubits \in QubitLists, duration \in Durations :
          ExecuteGate(node, "X", qubits, duration) =>
              IF \E i \in 1 .. Len(qubits) : ~InRange(qubits[i], QubitsPerNode)
              THEN /\ result'.status # "ok"
                   /\ operation_history' = operation_history
                   /\ total_operations' = total_operations
              ELSE /\ operation_history'[node] =
                          Append(operation_history[node],
                                 [gate |-> "X", qubits |-> qubits,
                                  duration |-> duration, node_id |-> node])
                   /\ total_operations'[node] = total_operations[node] + 1
                   /\ result'.status = "ok"
                   /\ result'.value = duration]_vars

(* A rejected gate after an accepted one on the same node: one record, one *)
(* counted operation.                                                      *)
C10_Witness ==
    /\ result.op = "execute_gate"
    /\ result.status = "ValueError"
    /\ \E n \in Nodes :
           /\ Len(operation_history[n]) = 1
           /\ total_operations[n] = 1
           /\ operation_history[n][1].node_id = n

-----------------------------------------------------------------------------
(***************************************************************************)
(* Properties of the protocol engine.                                      *)
(***************************************************************************)
(* The step is a call of op: the operations other than execute_schedule   *)
(* are single steps from idle to idle, and each records itself in result.  *)
CallOf(op) == pc = "idle" /\ pc' = "idle" /\ result'.op = op

(* The step is a teleport_qubit call that returns. *)
TeleportReturns == CallOf("teleport_qubit") /\ result'.status = "ok"

StageNames(stages) == [i \in 1 .. Len(stages) |-> stages[i].stage]

(* C11: a teleport_qubit that returns has run entangle, measure,           *)
(* communicate, correct in that order, the clock never going back and      *)
(* ending at the clock of the end of the call; the elapsed time it returns *)
(* is the clock at the end minus the clock at the start, and that value is *)
(* the one appended to the recorded teleportation times.                   *)
C11_TeleportElapsed ==
    [][TeleportReturns =>
          /\ StageNames(result'.stages) = <<"entangle", "measure", "communicate", "correct">>
          /\ result'.stages[1].clock >= global_time
          /\ \A i \in 1 .. 3 : result'.stages[i].clock <= result'.stages[i + 1].clock
          /\ result'.stages[4].clock = global_time'
          /\ result'.value[1] = global_time' - global_time
          /\ teleportation_times' = Append(teleportation_times, result'.value[1])]_vars

(* A second teleportation has returned: its elapsed time is less than the  *)
(* clock, which also holds the time of the first.                          *)
C11_Witness ==
    /\ result.op = "teleport_qubit"
    /\ result.status = "ok"
    /\ Len(teleportation_times) = 2
    /\ teleportation_times[2] = result.value[1]
    /\ global_time = teleportation_times[1] + teleportation_times[2]
    /\ teleportation_times[1] > 0

(* The number of gates the step has executed, over all nodes. *)
GatesExecuted ==
    (total_operations'[0] + total_operations'[1])
        - (total_operations[0] + total_operations[1])

(* C12: the elapsed time of a teleport_qubit that returns is               *)
(* latency*1.5 + 0.05 + latency + 0.02 plus 0.01 for each correction gate  *)
(* applied (in units of 0.005 s and doubled: 5*latency + 28 plus 4 for     *)
(* each gate).                                                             *)
C12_ElapsedCountsCorrections ==
    [][TeleportReturns =>
          2 * result'.value[1] =
              5 * communication_latency + 2 * (MeasureTime + CorrectionTime)
                  + 2 * GateDuration * GatesExecuted]_vars

(* What holds instead: the elapsed time is the fixed sum, whatever gates   *)
(* were applied.                                                           *)
C12_ElapsedIsFixed ==
    [][TeleportReturns =>
          2 * result'.value[1] =
              5 * communication_latency + 2 * (MeasureTime + CorrectionTime)]_vars

(* C13: a teleport_qubit that returns gives an elapsed time above 0, for   *)
(* latency 0 too, and a fidelity between 0.94 and 0.98 whatever the noise. *)
C13_TeleportResultBounds ==
    (result.op = "teleport_qubit" /\ result.status = "ok") =>
        /\ result.value[1] > 0
        /\ 940 <= result.value[2]
        /\ result.value[2] <= 980

(* On a network of latency 0, a teleportation whose noise was clamped at   *)
(* the lower end.                                                          *)
C13_Witness ==
    /\ result.op = "teleport_qubit"
    /\ result.status = "ok"
    /\ communication_latency = 0
    /\ result.value[2] = 940
    /\ fidelities # <<>>
    /\ fidelities[Len(fidelities)] = 940

(* The step is a teleport_qubit or remote_gate_operation call. *)
ProtocolCall == CallOf("teleport_qubit") \/ CallOf("remote_gate_operation")

IsPrefix(short, long) ==
    Len(short) <= Len(long) /\ SubSeq(long, 1, Len(short)) = short

(* C14: a protocol call that fails raises to its caller after appending    *)
(* exactly one entry to the error sequence, and appends nothing to the     *)
(* recorded times, fidelities and registry snapshots; the error sequence   *)
(* grows in no other way and is never shortened or rewritten.              *)
C14_FailureRecordedOnce ==
    /\ [][(ProtocolCall /\ result'.status # "ok") =>
              /\ Len(protocol_errors') = Len(protocol_errors) + 1
              /\ teleportation_times' = teleportation_times
              /\ fidelities' = fidelities
              /\ entanglement_consumption' = entanglement_consumption]_vars
    /\ [][/\ IsPrefix(protocol_errors, protocol_errors')
          /\ protocol_errors' # protocol_errors =>
                 (ProtocolCall /\ result'.status # "ok")]_vars

(* A failed call after a successful one and an earlier failure of the      *)
(* other protocol.                                                         *)
C14_Witness ==
    /\ result.op \in {"teleport_qubit", "remote_gate_operation"}
    /\ result.status # "ok"
    /\ Len(protocol_errors) = 1
    /\ Len(teleportation_times) = 1
    /\ Len(fidelities) = 1

(* The operation count get_protocol_metrics reports, an empty result       *)
(* counting as none.                                                       *)
ReportedOperations(metrics) ==
    IF metrics = <<>> THEN 0 ELSE metrics.total_operations

(* C15: get_protocol_metrics returns an empty result while no operation is *)
(* recorded; its operation count starts at 0 and grows by one with each    *)
(* protocol call that returns and with nothing else; and right after the   *)
(* only successful operation so far, a teleportation, it reports count 1   *)
(* and minimum = maximum = the fidelity that call returned.                *)
C15_MetricsSummary ==
    /\ ReportedOperations(ProtocolMetrics) = 0
    /\ [](result.op = "get_protocol_metrics" =>
              /\ result.value = ProtocolMetrics
              /\ (teleportation_times = <<>> /\ fidelities = <<>>) => result.value = <<>>)
    /\ [][ReportedOperations(ProtocolMetrics') =
              ReportedOperations(ProtocolMetrics)
                  + (IF ProtocolCall /\ result'.status = "ok" THEN 1 ELSE 0)]_vars
    /\ []((/\ result.op = "teleport_qubit"
            /\ result.status = "ok"
            /\ Len(teleportation_times) = 1) =>
              /\ ProtocolMetrics.total_operations = 1
              /\ ProtocolMetrics.min_fidelity = result.value[2]
              /\ ProtocolMetrics.max_fidelity = result.value[2])

(* get_protocol_metrics called right after the one successful operation,   *)
(* a teleportation, reports one operation and its fidelity.                *)
C15_Witness ==
    /\ result.op = "get_protocol_metrics"
    /\ result.value # <<>>
    /\ result.value.total_operations = 1
    /\ result.value.min_fidelity = result.value.max_fidelity
    /\ result.value.min_fidelity = fidelities[1]
    /\ entanglement_consumption = <<1>>

(* C16: every protocol call that returns, a remote gate like a             *)
(* teleportation, appends one elapsed time, one fidelity and one snapshot  *)
(* of the registry size, so the three recorded sequences have the same     *)
(* length.                                                                 *)
C16_ThreeSequencesInStep ==
    /\ Len(teleportation_times) = Len(fidelities)
    /\ Len(fidelities) = Len(entanglement_consumption)

(* What holds instead: times and fidelities go together, and snapshots are *)
(* recorded by teleportations only.                                        *)
C16_TimesAndFidelitiesInStep ==
    /\ Len(teleportation_times) = Len(fidelities)
    /\ Len(entanglement_consumption) <= Len(fidelities)

(* The step is a remote_gate_operation call that returns. *)
RemoteGateReturns == CallOf("remote_gate_operation") /\ result'.status = "ok"

(* C17: a remote_gate_operation of kind CNOT or CX, in any letter case,    *)
(* that returns has added the one registry entry (control, target) at the  *)
(* end, advanced the clock by latency*1.5 + 0.08 + latency, returned that  *)
(* advance as the elapsed time, and returned a fidelity within [0.8, 1.0]. *)
C17_ControlledRemoteGate ==
    [][RemoteGateReturns =>
          \A args \in ProtocolArgs, gate_type \in {"CNOT", "cx"}, noise \in GateNoises :
              RemoteGateOperation(args[1], args[2], args[3], args[4], gate_type, noise) =>
                  /\ entanglement_pairs' =
                         Append(entanglement_pairs,
                                <<<<args[1], args[2]>>, <<args[3], args[4]>>>>)
                  /\ 2 * (global_time' - global_time) =
                         5 * communication_latency + 2 * LocalOpsTime
                  /\ result'.value[1] = global_time' - global_time
                  /\ 800 <= result'.value[2]
                  /\ result'.value[2] <= 1000]_vars

(* Two controlled remote gates have returned, the second with its fidelity *)
(* clamped at the lower end.                                               *)
C17_Witness ==
    /\ result.op = "remote_gate_operation"
    /\ result.status = "ok"
    /\ Len(entanglement_pairs) = 2
    /\ result.value[2] = 800
    /\ communication_latency > 0
    /\ global_time = 2 * result.value[1]

-----------------------------------------------------------------------------
-----------------------------------------------------------------------------
(***************************************************************************)
(* Properties of the analysis execute_schedule returns.                    *)
(***************************************************************************)
(* The number of items the drain that ended last has executed. *)
ExecutedCount ==
    Cardinality({i \in 1 .. Len(drain_log) : drain_log[i].node # NoneVal})

(* C20: in the analysis a drain returns, schedule_efficiency is the number *)
(* of executed items over executed items plus the items pending in the     *)
(* live queue after the drain, and 0 when nothing was executed (a drain of *)
(* an empty queue included); average_circuit_time is total_execution_time  *)
(* over max(1, executed); the efficiency lies in [0, 1].                   *)
C20_AnalysisRatios ==
    DrainReturned =>
        LET analysis == result.value
            efficiency == analysis.schedule_efficiency
            average == analysis.average_circuit_time
            pending == Len(schedule_queue)
        IN  /\ analysis.circuits_executed = ExecutedCount
            /\ ExecutedCount > 0 =>
                   /\ efficiency.num = ExecutedCount
                   /\ efficiency.den = ExecutedCount + pending
            /\ ExecutedCount = 0 => efficiency.num = 0 /\ efficiency.den > 0
            /\ snapshot = <<>> => efficiency.num = 0
            /\ average.num = analysis.total_execution_time
            /\ average.den = Max(1, ExecutedCount)
            /\ efficiency.den > 0
            /\ 0 <= efficiency.num
            /\ efficiency.num <= efficiency.den

(* A drain has returned with one item executed and one pending again: the  *)
(* efficiency is 1/2.                                                      *)
C20_Witness ==
    /\ DrainReturned
    /\ ExecutedCount = 1
    /\ Len(schedule_queue) = 1
    /\ result.value.schedule_efficiency = Ratio(1, 2)

-----------------------------------------------------------------------------
(***************************************************************************)
(* Properties of schedule_circuit.                                         *)
(***************************************************************************)
(* The entries a call of schedule_circuit is to add. *)
Entries(subcircuits, priority, timestamp) ==
    [i \in 1 .. Len(subcircuits) |->
        WorkItem(priority, timestamp, i - 1, subcircuits[i])]

(* The queue after is the queue before plus the entries, as multisets. *)
AddedExactly(entries, before, after) ==
    /\ Len(after) = Len(before) + Len(entries)
    /\ \A x \in Elements(after) \cup Elements(before) \cup Elements(entries) :
           Count(x, after) = Count(x, before) + Count(x, entries)

(* C26: schedule_circuit adds exactly one pending entry per subcircuit,    *)
(* all with the given priority and one common timestamp, with sequence     *)
(* indices 0, 1, 2, ... in list order; it executes nothing, leaves the     *)
(* entries pending before unchanged and does not touch node or network     *)
(* state.                                                                  *)
C26_OneEntryPerSubcircuit ==
    [][\A batch \in Batches, priority \in Priorities, timestamp \in 0 .. MaxWall :
          (CallOf("schedule_circuit") /\ ScheduleCircuit(batch, priority, timestamp)) =>
              /\ result'.status = "ok"
              /\ AddedExactly(Entries(batch, priority, timestamp),
                              schedule_queue, schedule_queue')
              /\ UNCHANGED <<node_vars, net_vars, metric_vars, scheduling_history,
                             frame_vars>>]_vars

(* The same statement for the calls that return. *)
C26_WhenReturned ==
    [][\A batch \in Batches, priority \in Priorities, timestamp \in 0 .. MaxWall :
          (CallOf("schedule_circuit") /\ result'.status = "ok"
              /\ ScheduleCircuit(batch, priority, timestamp)) =>
              /\ AddedExactly(Entries(batch, priority, timestamp),
                              schedule_queue, schedule_queue')
              /\ UNCHANGED <<node_vars, net_vars, metric_vars, scheduling_history,
                             frame_vars>>]_vars

-----------------------------------------------------------------------------
(***************************************************************************)
(* The drain as a single pass.                                             *)
(***************************************************************************)
(* The items the drain that ended last took from its snapshot. *)
Handled == [i \in 1 .. Len(drain_log) |-> drain_log[i].item]

(* C27: execute_schedule is a single pass that always terminates: it       *)
(* processes each item of the snapshot taken at its start exactly once, an *)
(* item it re-queued is not taken again within the call, and the number of *)
(* loop iterations is the number of items pending at the start.            *)
C27_SinglePass ==
    /\ [](DrainEnded =>
              /\ Len(drain_log) = Len(snapshot)
              /\ \A i \in 1 .. Len(snapshot) :
                     Count(snapshot[i], Handled) = Count(snapshot[i], snapshot))
    /\ [][pc # "idle" => Len(temp_queue') <= Len(temp_queue)]_vars
    /\ (pc # "idle") ~> (pc = "idle")

(* The same statement for the drains that return. *)
C27_WhenReturned ==
    /\ [](DrainReturned =>
              /\ Len(drain_log) = Len(snapshot)
              /\ \A i \in 1 .. Len(snapshot) :
                     Count(snapshot[i], Handled) = Count(snapshot[i], snapshot))
    /\ [][pc # "idle" => Len(temp_queue') <= Len(temp_queue)]_vars
    /\ (pc # "idle") ~> (pc = "idle")

-----------------------------------------------------------------------------
(***************************************************************************)
(* schedule_circuit interleaved with a running drain.                      *)
(***************************************************************************)
(* C28: the entries submitted while a drain runs go to the new live queue: *)
(* the drain in progress does not process them, they are not lost, and     *)
(* they are pending at their submitted priority when the drain returns,    *)
(* alongside the items the drain re-queued.                                *)
C28_ArrivalsPending ==
    DrainReturned =>
        /\ \A i \in 1 .. Len(arrivals) :
               /\ Count(arrivals[i], schedule_queue) >= Count(arrivals[i], arrivals)
               /\ Count(arrivals[i], Handled) <= Count(arrivals[i], snapshot)
        /\ Len(schedule_queue)
               = Len(arrivals) + Len(drain_log) - ExecutedCount

(* What holds instead: the entries pending when a drain returns are the    *)
(* items it re-queued and the entries of the calls that pushed after the   *)
(* queue was replaced; the entries pushed between the copy and the         *)
(* replacement are neither processed nor pending.                          *)
C28_ArrivalsAfterClear ==
    DrainReturned =>
        /\ \A i \in 1 .. Len(arrivals) :
               Count(arrivals[i], Handled) <= Count(arrivals[i], snapshot)
        /\ Len(schedule_queue) <= Len(arrivals) + Len(drain_log) - ExecutedCount

-----------------------------------------------------------------------------
(***************************************************************************)
(* Two drains placing items on the same node.                              *)
(***************************************************************************)
(* C29: nothing protects a node against over-subscription by concurrent    *)
(* placements. The check of the available count and the reservation are    *)
(* separate steps: a reservation takes what is available at that moment,   *)
(* up to the required number, without a second check, so that an item      *)
(* whose node has lost slots to the other call since the check executes    *)
(* while holding fewer slots than it requires. It gets fewer only when the *)
(* other call holds slots of the same node at that moment.                 *)
C29_ReservationUnchecked ==
    /\ [][(pc = "reserve" /\ pc' = "gates") =>
              /\ Len(used_qubits')
                     = Min(current.subcircuit.required_qubits,
                           Cardinality(available_qubits[target_node]))
              /\ Len(used_qubits') < current.subcircuit.required_qubits =>
                     /\ other.pc = "gates"
                     /\ other.target_node = target_node
                     /\ other.used_qubits # <<>>]_vars
    /\ [][(other.pc = "reserve" /\ other'.pc = "gates") =>
              /\ Len(other'.used_qubits)
                     = Min(other.current.subcircuit.required_qubits,
                           Cardinality(available_qubits[other.target_node]))
              /\ Len(other'.used_qubits) < other.current.subcircuit.required_qubits =>
                     /\ pc = "gates"
                     /\ target_node = other.target_node
                     /\ used_qubits # <<>>]_vars
    /\ [][(pc = "gates" /\ pc' = "loop") =>
              total_operations'[target_node] >= current.subcircuit.required_qubits]_vars

(* Two items that together need more slots than the node has execute on it *)
(* at the same time: the one that reserved second has executed a gate and  *)
(* holds fewer slots than it requires.                                     *)
C29_Witness ==
    /\ pc = "gates"
    /\ other.pc = "gates"
    /\ target_node = other.target_node
    /\ current.subcircuit.required_qubits + other.current.subcircuit.required_qubits
           > QubitsPerNode
    /\ Len(used_qubits) < current.subcircuit.required_qubits
    /\ Len(other.used_qubits) = other.current.subcircuit.required_qubits
    /\ gate_index > 0

-----------------------------------------------------------------------------
(***************************************************************************)
(* The execution of one item on its node, lines 74-98.                     *)
(***************************************************************************)
(* The step that takes the slots, one gate step, and the step that gives   *)
(* the slots back and records the completion entry.                        *)
SlotsAreTaken == pc = "reserve" /\ pc' = "gates"

GateIsExecuted == pc = "gates" /\ gate_index' = gate_index + 1

ItemCompletes == pc = "gates" /\ pc' = "loop"

(* The record execute_gate appended in a gate step. *)
GateExecuted == operation_history'[target_node][Len(operation_history'[target_node])]

(* An item requiring k slots takes exactly k distinct free slots of its    *)
(* node.                                                                   *)
ExactlyRequiredReserved ==
    [][SlotsAreTaken =>
          /\ Len(used_qubits') = current.subcircuit.required_qubits
          /\ Cardinality(Elements(used_qubits')) = current.subcircuit.required_qubits
          /\ Elements(used_qubits') \subseteq available_qubits[target_node]
          /\ available_qubits'[target_node] =
                 available_qubits[target_node] \ Elements(used_qubits')]_vars

(* Every gate of the item is one H gate of duration 0.01 on one slot and   *)
(* adds one to the node's operation counter; when the item completes, k    *)
(* gates have been executed.                                               *)
RequiredGatesExecuted ==
    /\ [][GateIsExecuted =>
              /\ GateExecuted.gate = "H"
              /\ GateExecuted.duration = GateDuration
              /\ Len(GateExecuted.qubits) = 1
              /\ Len(operation_history'[target_node]) =
                     Len(operation_history[target_node]) + 1
              /\ total_operations'[target_node] = total_operations[target_node] + 1]_vars
    /\ [][ItemCompletes => gate_index = current.subcircuit.required_qubits]_vars

(* Each gate targets a slot the item has reserved. *)
GatesTargetReservedSlots ==
    [][GateIsExecuted => GateExecuted.qubits[1] \in Elements(used_qubits)]_vars

(* The completion entry names the reserved slots and the time 0.1 + 0.01 k. *)
CompletionEntryRecorded ==
    [][ItemCompletes =>
          LET entry == execution_results'[Len(execution_results')]
          IN  /\ Len(execution_results') = Len(execution_results) + 1
              /\ entry.qubits_used = used_qubits
              /\ entry.node_id = target_node
              /\ entry.execution_time =
                     BaseExecutionTime
                         + GateDuration * current.subcircuit.required_qubits
              /\ available_qubits'[target_node] =
                     available_qubits[target_node] \cup Elements(used_qubits)]_vars

(* C30: when an item requiring k qubits is executed on a node, exactly k    *)
(* slots are reserved, exactly k gates of kind H with duration 0.01 are    *)
(* executed and the node's operation counter grows by k, each gate targets *)
(* a slot reserved by that item, the recorded qubits_used are the reserved *)
(* slots, and the completion entry's execution time is 0.1 + 0.01 k.       *)
C30_ItemExecution ==
    /\ ExactlyRequiredReserved
    /\ RequiredGatesExecuted
    /\ GatesTargetReservedSlots
    /\ CompletionEntryRecorded

(* What holds of the execution of an item: everything above but the slots  *)
(* the gates target, which are 0 .. k-1 whatever slots were reserved.      *)
C30_GatesOnLeadingSlots ==
    /\ ExactlyRequiredReserved
    /\ RequiredGatesExecuted
    /\ CompletionEntryRecorded
    /\ [][GateIsExecuted => GateExecuted.qubits[1] = gate_index]_vars

-----------------------------------------------------------------------------
(***************************************************************************)
(* Progress of the scheduler under repeated drains.                        *)
(***************************************************************************)
(* What identifies a submitted item through its re-queuings: everything    *)
(* but the priority.                                                       *)
WorkOf(item) ==
    [timestamp |-> item.timestamp, circuit_id |-> item.circuit_id,
     subcircuit |-> item.subcircuit]

Works ==
    {[timestamp |-> t, circuit_id |-> i,
      subcircuit |-> [required_qubits |-> r, partition_id |-> i]] :
        t \in 0 .. MaxWall, i \in 0 .. (MaxItems - 1), r \in RequiredQubits}

PendingWork(work) ==
    \E k \in 1 .. Len(schedule_queue) : WorkOf(schedule_queue[k]) = work

ExecutedWork(work) ==
    \E k \in 1 .. Len(drain_log) :
        drain_log[k].node # NoneVal /\ WorkOf(drain_log[k].item) = work

C21_RequeuedNeverFits ==
    /\ pc # "gates" => \A n \in Nodes : available_qubits[n] = Slots
    /\ \A k \in 1 .. Len(drain_log) :
           drain_log[k].node = NoneVal =>
               drain_log[k].item.subcircuit.required_qubits > QubitsPerNode
    /\ \A k \in 1 .. Len(schedule_queue) :
           schedule_queue[k].priority > 2 =>
               schedule_queue[k].subcircuit.required_qubits > QubitsPerNode

-----------------------------------------------------------------------------
(***************************************************************************)
(* Properties of the node bookkeeping.                                     *)
(***************************************************************************)
(* C23: a node's utilization is its log length over its operation counter, *)
(* and 0 while the log is empty; the log length equals the counter in      *)
(* every reachable state, so that the utilization is exactly 0 before the  *)
(* node's first successful gate and exactly 1 ever after, and always in    *)
(* [0, 1].                                                                 *)
C23_Utilization ==
    /\ [](\A n \in Nodes :
             /\ Len(operation_history[n]) = total_operations[n]
             /\ operation_history[n] = <<>> => GetUtilization(n).num = 0
             /\ operation_history[n] # <<>> =>
                    /\ GetUtilization(n).num = Len(operation_history[n])
                    /\ GetUtilization(n).den = total_operations[n]
                    /\ GetUtilization(n).num = GetUtilization(n).den
             /\ GetUtilization(n).den > 0
             /\ 0 <= GetUtilization(n).num
             /\ GetUtilization(n).num <= GetUtilization(n).den)
    /\ [][\A n \in Nodes :
              /\ Len(operation_history'[n]) >= Len(operation_history[n])
              /\ operation_history'[n] # operation_history[n] =>
                     \/ CallOf("execute_gate") /\ result'.status = "ok"
                     \/ CallOf("teleport_qubit")
                     \/ CallOf("remote_gate_operation")
                     \/ pc = "gates"]_vars

(* A drain reports utilization 1 for the node that executed two gates and  *)
(* 0 for the node that executed none.                                      *)
C23_Witness ==
    /\ DrainReturned
    /\ total_operations[0] = 2
    /\ result.value.node_utilization[0] = Ratio(2, 2)
    /\ operation_history[1] = <<>>
    /\ result.value.node_utilization[1] = Ratio(0, 1)

(* C24: reset_qubit with an index out of range returns silently and       *)
(* changes nothing; with an index in range it clears that slot's           *)
(* back-reference and puts the index in the node's available set, and     *)
(* leaves every other slot's back-reference (the peer's included), the     *)
(* registry, the clock and the operation logs unchanged.                   *)
C24_ResetFrame ==
    [][\A node \in Nodes, qubit_idx \in SlotArgs :
          (CallOf("reset_qubit") /\ ResetQubit(node, qubit_idx)) =>
              /\ result'.status = "ok"
              /\ UNCHANGED <<operation_history, total_operations, net_vars,
                             metric_vars, sched_vars>>
              /\ IF ~InRange(qubit_idx, QubitsPerNode)
                 THEN UNCHANGED <<available_qubits, entangled_with>>
                 ELSE /\ entangled_with'[node][qubit_idx] = NoRef
                      /\ qubit_idx \in available_qubits'[node]
                      /\ available_qubits'[node]
                             = available_qubits[node] \cup {qubit_idx}
                      /\ \A n \in Nodes :
                             n # node => available_qubits'[n] = available_qubits[n]
                      /\ \A n \in Nodes, q \in Slots :
                             <<n, q>> # <<node, qubit_idx>> =>
                                 entangled_with'[n][q] = entangled_with[n][q]]_vars

(* After a reset a slot still points at a peer that no longer points back, *)
(* and the pair is still in the registry.                                  *)
C24_Witness ==
    /\ result.op = "reset_qubit"
    /\ entanglement_pairs # <<>>
    /\ \E n \in Nodes, q \in Slots :
           /\ entangled_with[n][q] # NoRef
           /\ entangled_with[entangled_with[n][q][1]][entangled_with[n][q][2]] = NoRef

(* The sum of f over the node ids up to n. *)
RECURSIVE SumUpTo(_, _)
SumUpTo(f, n) == IF n < 0 THEN 0 ELSE f[n] + SumUpTo(f, n - 1)

(* C25: get_network_stats and get_protocol_metrics are pure reads: a call  *)
(* of either changes no node, clock, registry, metrics or queue state; the *)
(* stats are the node count, the total slot count, the registry length,    *)
(* the sum of the nodes' operation counters, the utilization of each node  *)
(* and the current logical clock.                                          *)
C25_PureReads ==
    /\ [][(CallOf("get_network_stats") \/ CallOf("get_protocol_metrics")) =>
              /\ result'.status = "ok"
              /\ UNCHANGED <<node_vars, net_vars, metric_vars, sched_vars,
                             frame_vars>>]_vars
    /\ []((pc = "idle" /\ result.op = "get_network_stats") =>
              /\ result.value.total_nodes = Cardinality(Nodes)
              /\ result.value.total_qubits = Cardinality(Nodes \X Slots)
              /\ result.value.active_entanglements = Len(entanglement_pairs)
              /\ result.value.total_operations
                     = SumUpTo(total_operations, NumNodes - 1)
              /\ \A n \in Nodes :
                     result.value.node_utilizations[n]
                         = (IF total_operations[n] = 0 THEN Ratio(0, 1)
                            ELSE Ratio(total_operations[n], total_operations[n]))
              /\ result.value.global_time = global_time)

(* Statistics read after a teleportation with both correction gates. *)
C25_Witness ==
    /\ pc = "idle"
    /\ result.op = "get_network_stats"
    /\ result.value.active_entanglements = 1
    /\ result.value.total_operations = 2
    /\ total_operations[0] = 0
    /\ result.value.global_time > 0

-----------------------------------------------------------------------------
(***************************************************************************)
(* Properties of the logical clock.                                        *)
(***************************************************************************)
(* C19: with a latency of 0 or more the logical clock never decreases, and *)
(* it changes only in create_entanglement, teleport_qubit and              *)
(* remote_gate_operation steps: execute_gate, reset_qubit, the stats and   *)
(* metrics reads, schedule_circuit and every step of execute_schedule      *)
(* leave it as it is.                                                      *)
C19_ClockMonotone ==
    /\ communication_latency >= 0
    /\ [][global_time' >= global_time]_vars
    /\ [][global_time' # global_time =>
              \/ CallOf("create_entanglement")
              \/ CallOf("teleport_qubit")
              \/ CallOf("remote_gate_operation")]_vars
    /\ [][(\/ CallOf("execute_gate")
           \/ CallOf("reset_qubit")
           \/ CallOf("get_network_stats")
           \/ CallOf("get_protocol_metrics")
           \/ CallOf("schedule_circuit")
           \/ pc # "idle"
           \/ pc' # "idle") => global_time' = global_time]_vars

(* execute_schedule has returned on a network whose clock an earlier       *)
(* protocol call had advanced: the clock is where that call left it.       *)
C19_Witness ==
    /\ DrainReturned
    /\ global_time > 0
    /\ calls = 1
    /\ drains = 1

-----------------------------------------------------------------------------
(***************************************************************************)
(* Elapsed times against the logical clock.                                *)
(***************************************************************************)
(* The step is a protocol call of either kind that returns. *)
ProtocolReturns == ProtocolCall /\ result'.status = "ok"

(* C31: every successful protocol call of either kind returns an elapsed   *)
(* time equal to the change of the logical clock across that call,         *)
(* including remote_gate_operation with a single-qubit gate kind, which    *)
(* returns the gate duration 0.01.                                         *)
C31_ElapsedIsClockChange ==
    [][ProtocolReturns => result'.value[1] = global_time' - global_time]_vars

(* What holds of the elapsed times: a call that registered a pair returns  *)
(* the change of the clock; a call that registered none, the single-qubit  *)
(* remote gate, returns the gate duration and leaves the clock alone.      *)
C31_ExceptLocalGates ==
    [][ProtocolReturns =>
          IF entanglement_pairs' # entanglement_pairs
          THEN result'.value[1] = global_time' - global_time
          ELSE /\ result'.op = "remote_gate_operation"
               /\ result'.value[1] = GateDuration
               /\ global_time' = global_time]_vars

-----------------------------------------------------------------------------
(***************************************************************************)
(* What a failed protocol call leaves behind.                              *)
(***************************************************************************)
(* The step is a protocol call of either kind that raises. *)
ProtocolFails == ProtocolCall /\ result'.status # "ok"

-----------------------------------------------------------------------------
(***************************************************************************)
(* The ordering of the pending work.                                       *)
(***************************************************************************)
(* The key heapq compares before it reaches the subcircuit descriptor. *)
KeyOf(item) == <<item.priority, item.timestamp, item.circuit_id>>

KeysDistinct(queue) ==
    \A i, j \in 1 .. Len(queue) : i # j => KeyOf(queue[i]) # KeyOf(queue[j])

(* C33: the pending-work ordering is total: no two distinct pending items  *)
(* ever have the same (priority, submission timestamp, sequence index)     *)
(* key, so that the drain order never depends on comparing subcircuit      *)
(* descriptors, and no call raises from such a comparison.                 *)
C33_KeysDistinct ==
    /\ KeysDistinct(schedule_queue)
    /\ KeysDistinct(temp_queue)
    /\ result.status # "TypeError"

(* What holds of the keys: the items of one schedule_circuit call that are *)
(* pending with the priority they were submitted with differ in their      *)
(* sequence index, so equal keys belong to different calls or to an item   *)
(* that was re-queued.                                                     *)
C33_DistinctWithinCall ==
    [][\A subcircuits \in Batches, priority \in Priorities, timestamp \in 0 .. MaxWall :
           ScheduleCircuit(subcircuits, priority, timestamp) /\ schedule_queue = <<>>
               => KeysDistinct(schedule_queue')]_vars

-----------------------------------------------------------------------------
C34_ReportedAfterFirstSuccess ==
    result.op = "get_protocol_metrics" =>
        IF teleportation_times = <<>>
        THEN result.value = <<>>
        ELSE result.value.error_count = Len(protocol_errors)

-----------------------------------------------------------------------------
(***************************************************************************)
(* The recorded snapshots of the registry size.                            *)
(***************************************************************************)
(* The step is a call that has registered a pair without recording a       *)
(* snapshot: a controlled remote gate or a direct create_entanglement.     *)
PairWithoutSnapshot ==
    /\ CallOf("remote_gate_operation") \/ CallOf("create_entanglement")
    /\ Len(entanglement_pairs') = Len(entanglement_pairs) + 1

(* A summary is reported, and its total_entanglements is below the length  *)
(* of the registry.                                                        *)
ReportedBelowRegistry ==
    /\ teleportation_times # <<>>
    /\ ProtocolMetrics.total_entanglements < Len(entanglement_pairs)

(* C35: the recorded registry-size snapshots form a non-decreasing         *)
(* sequence, so the reported total_entanglements, their maximum, is the    *)
(* registry length at the most recent teleportation that returned; it      *)
(* never exceeds the length of the registry, is strictly smaller once a    *)
(* controlled remote gate or a direct create_entanglement follows the last *)
(* teleportation, and is 0 when only remote gates have returned.           *)
C35_SnapshotsNonDecreasing ==
    /\ [](\A i, j \in 1 .. Len(entanglement_consumption) :
              i <= j => entanglement_consumption[i] <= entanglement_consumption[j])
    /\ [][IF TeleportReturns
          THEN entanglement_consumption' =
                   Append(entanglement_consumption, Len(entanglement_pairs'))
          ELSE entanglement_consumption' = entanglement_consumption]_vars
    /\ [](teleportation_times # <<>> =>
              /\ ProtocolMetrics.total_entanglements <= Len(entanglement_pairs)
              /\ ProtocolMetrics.total_entanglements =
                     IF entanglement_consumption = <<>> THEN 0
                     ELSE entanglement_consumption[Len(entanglement_consumption)])
    /\ [][(PairWithoutSnapshot /\ teleportation_times' # <<>>)
              => ReportedBelowRegistry']_vars
    /\ [][(ReportedBelowRegistry /\ ~TeleportReturns) => ReportedBelowRegistry']_vars

(* A controlled remote gate has returned after a teleportation: the        *)
(* registry holds two pairs, the one snapshot is 1 and so is the reported  *)
(* total.                                                                  *)
C35_Witness ==
    /\ result.op = "remote_gate_operation"
    /\ result.status = "ok"
    /\ entanglement_consumption = <<1>>
    /\ Len(entanglement_pairs) = 2
    /\ ProtocolMetrics.total_entanglements = 1

-----------------------------------------------------------------------------
(***************************************************************************)
(* The back-references of the slots.                                       *)
(***************************************************************************)
SlotRefs == {<<n, q>> : n \in Nodes, q \in Slots}

BackRef(slot) == entangled_with[slot[1]][slot[2]]

(* The registry pairs the two slots, in either order. *)
Registered(p, q) ==
    \E i \in 1 .. Len(entanglement_pairs) :
        entanglement_pairs[i] = <<p, q>> \/ entanglement_pairs[i] = <<q, p>>

(* C36: in every reachable state each slot's non-empty back-reference      *)
(* names a valid slot of a different node, and the registry contains at    *)
(* least one entry pairing that slot with the referenced slot, in either   *)
(* order.                                                                  *)
C36_BackRefsRegistered ==
    \A p \in SlotRefs :
        BackRef(p) # NoRef =>
            /\ BackRef(p) \in SlotRefs
            /\ BackRef(p)[1] # p[1]
            /\ Registered(p, BackRef(p))

(* A slot whose partner was reset: it still names the partner, which no    *)
(* longer points back, and the pair is still in the registry.              *)
C36_Witness ==
    /\ result.op = "reset_qubit"
    /\ Len(entanglement_pairs) = 1
    /\ BackRef(<<0, 0>>) = <<1, 0>>
    /\ BackRef(<<1, 0>>) = NoRef
    /\ Registered(<<0, 0>>, <<1, 0>>)

EntriesOf(p) ==
    {i \in 1 .. Len(entanglement_pairs) :
        entanglement_pairs[i][1] = p \/ entanglement_pairs[i][2] = p}

PartnerIn(i, p) ==
    IF entanglement_pairs[i][1] = p THEN entanglement_pairs[i][2]
    ELSE entanglement_pairs[i][1]

(* What holds without reset_qubit: a slot's back-reference is its partner  *)
(* in the last registry entry that names the slot, and is empty when no    *)
(* entry names it; a slot whose partner was entangled again since is still *)
(* pointing at that partner.                                               *)
C37_RefIsLastPartner ==
    \A p \in SlotRefs :
        IF EntriesOf(p) = {} THEN BackRef(p) = NoRef
        ELSE BackRef(p) =
                 PartnerIn(CHOOSE i \in EntriesOf(p) : \A j \in EntriesOf(p) : j <= i, p)

-----------------------------------------------------------------------------
(***************************************************************************)
(* The drain and the logical clock.                                        *)
(***************************************************************************)
(* The step is a step of execute_schedule: every other operation goes from *)
(* idle to idle.                                                           *)
DrainStep == pc # "idle" \/ pc' # "idle"

(* C38: execute_schedule never advances the logical clock and never        *)
(* changes the entanglement registry or the protocol metrics, and so it    *)
(* reports total_execution_time = 0 and average_circuit_time = 0 for every *)
(* drain, while the completion entries of the executed items each record   *)
(* an execution time of at least 0.1.                                      *)
C38_DrainLeavesClock ==
    /\ [][DrainStep =>
              /\ global_time' = global_time
              /\ entanglement_pairs' = entanglement_pairs
              /\ teleportation_times' = teleportation_times
              /\ fidelities' = fidelities
              /\ entanglement_consumption' = entanglement_consumption
              /\ protocol_errors' = protocol_errors]_vars
    /\ [](DrainReturned =>
              /\ result.value.total_execution_time = 0
              /\ result.value.average_circuit_time.num = 0)
    /\ [][(pc = "loop" /\ pc' = "idle" /\ result'.status = "ok") =>
              /\ result'.value.circuits_executed = Len(execution_results)
              /\ \A i \in 1 .. Len(execution_results) :
                     execution_results[i].execution_time >= BaseExecutionTime]_vars

(* A drain that executed an item has returned on a network whose clock a   *)
(* teleportation had advanced: the analysis counts the item and reports a  *)
(* total time of 0.                                                        *)
C38_Witness ==
    /\ DrainReturned
    /\ global_time > 0
    /\ teleportation_times # <<>>
    /\ ExecutedCount > 0
    /\ result.value.circuits_executed = ExecutedCount
    /\ result.value.total_execution_time = 0

-----------------------------------------------------------------------------
(***************************************************************************)
(* Where the single-threaded scheduler places its items.                   *)
(***************************************************************************)
(* C39: in the single-threaded scheduler every node's available-slot set   *)
(* is the full set of its slots whenever an item is being placed, so every *)
(* executed item runs on the lowest-id node whose slot count is at least   *)
(* the item's required qubit count; the nodes being of equal size, all     *)
(* executed items run on node 0 and no other node's operation log ever     *)
(* grows through scheduling.                                               *)
C39_AlwaysFirstNode ==
    /\ [](pc \in {"idle", "loop", "find"} =>
              \A n \in Nodes : available_qubits[n] = Slots)
    /\ [][PlacementDecided =>
              IF current.subcircuit.required_qubits <= QubitsPerNode
              THEN pc' = "reserve" /\ target_node' = 0
              ELSE pc' # "reserve"]_vars
    /\ [](\A i \in 1 .. Len(drain_log) : drain_log[i].node \in {0, NoneVal})
    /\ [](\A n \in Nodes : n # 0 =>
              operation_history[n] = <<>> /\ total_operations[n] = 0)

(* A drain that executed two items has returned: both ran on node 0, whose *)
(* log holds their gates, and the log of node 1 is empty.                  *)
C39_Witness ==
    /\ DrainReturned
    /\ ExecutedCount = 2
    /\ \A i \in 1 .. Len(drain_log) : drain_log[i].node = 0
    /\ Len(operation_history[0]) = 4
    /\ operation_history[1] = <<>>

=============================================================================
